---------------------------- MODULE Spec2Model ----------------------------
(***************************************************************************)
(* A state-machine model of web_scraper_toolkit: the proxy rotation pool   *)
(* (utils/proxy_manager.py), the robots.txt gate (utils/robots_txt.py),    *)
(* the fetch-retry unit and the extraction step of the requests engine     *)
(* (engines/requests_engine.py) and the Scraper that drives them           *)
(* (scraper.py).                                                           *)
(*                                                                         *)
(* Threads run the Python functions as sequences of atomic steps.  A step  *)
(* boundary is placed wherever another thread can observe or change the    *)
(* shared state: at every lock acquisition, between the read and the       *)
(* write of the round-robin cursor, and around every network call.         *)
(*                                                                         *)
(* Strings that the code parses (URL paths, robots.txt rule paths) are     *)
(* sequences of one-character strings.                                     *)
(***************************************************************************)
EXTENDS Integers, Sequences, FiniteSets, TLC

(***************************************************************************)
(* Bounds of the model.                                                    *)
(***************************************************************************)
NumThreads == 2          \* threads that call into the shared pools
PoolSize == 2            \* entries of the largest proxy file
NumUrls == 3             \* URLs of the job given to scrape_multiple
MaxPathLen == 3          \* characters of a URL path or robots.txt rule path
MaxRetriesConfig == 3    \* largest configured ScraperConfig.max_retries
MaxTime == 2             \* seconds the clock advances while the robots cache is used
MaxNodes == 2            \* elements a selector matches in a document
MaxProcessors == 2       \* processors of a field schema
MaxRecords == 2          \* records of a list given to an exporter

(***************************************************************************)
(* Program constants.                                                      *)
(***************************************************************************)
StopAfterAttempt == 3                \* @retry(stop=stop_after_attempt(3), ..
WaitFixed == 2                       \* .. wait=wait_fixed(2))
robots_parsers_max_cache_size == 100
robots_parsers_cache_ttl == 3600

Threads == 1 .. NumThreads

\* Lines the proxy file can hold: a write that would make it longer fails.
MaxFileLen == PoolSize + 1
NoThread == 0
NoProxy == 0              \* get_proxy returning None
NoList == 0               \* _proxies_cache = None; as a local, a fresh []

VARIABLES
    \* ---- utils/proxy_manager.py, module state
    proxy_file,                \* the proxy file: [exists, lines]
    lists,                     \* the Python list objects, by identity
    proxies_cache,             \* _proxies_cache: None or the identity of a list
    proxies_lock,              \* _proxies_lock: the holder, or NoThread
    current_proxy_index,       \* _current_proxy_index
    \* ---- utils/robots_txt.py, module state
    robots_parsers,            \* _robots_parsers: origin -> parser
    robots_parsers_last_used,  \* _robots_parsers_last_used: origin -> time
    robots_parsers_lock,       \* _robots_parsers_lock: the holder, or NoThread
    \* ---- utils/user_agent_manager.py, module state
    user_agents_cache,         \* _user_agents_cache: <<>> for None, or the list
    \* ---- scraper.py, config.py
    config,                    \* the ScraperConfig of the Scraper
    job_status,                \* status of the ScraperJob that runs the URLs
    \* ---- threads
    pc,                        \* thread -> label of its next step
    loc,                       \* thread -> local variables of its frames
    now,                       \* time.time(), in seconds
    \* ---- the environment
    robots_txt,                \* origin -> the ways a retrieval of its robots.txt can end
    user_agent_file,           \* the user agent file: [exists, lines]
    \* ---- history, written but never read by the program
    picks,                     \* the round-robin selections since the pool last
                               \* changed (the latest len(pool) of them), oldest first
    events,                    \* what scrape() did for the URL it is working on
    outcomes,                  \* how scrape() ended for each URL of the job so far
    last_request               \* origin -> time of the latest request sent to it

poolVars == <<proxy_file, lists, proxies_cache, proxies_lock, current_proxy_index>>
robotsVars == <<robots_parsers, robots_parsers_last_used, robots_parsers_lock>>
histVars == <<picks, events, outcomes, last_request>>
uaVars == <<user_agents_cache, user_agent_file>>
vars == <<poolVars, robotsVars, config, job_status, pc, loc, now, robots_txt, uaVars, histVars>>

(***************************************************************************)
(* Sequences.                                                              *)
(***************************************************************************)
Range(s) == {s[i] : i \in DOMAIN s}

Last(s) == s[Len(s)]

StartsWith(s, p) == Len(p) <= Len(s) /\ SubSeq(s, 1, Len(p)) = p

NoDuplicates(s) == \A i, j \in DOMAIN s : i # j => s[i] # s[j]

\* The last n elements of s (all of s when it is shorter).
Tail_n(s, n) == IF Len(s) <= n THEN s ELSE SubSeq(s, Len(s) - n + 1, Len(s))

(***************************************************************************)
(* Thread-local variables.  A thread runs one call chain at a time, so one *)
(* record holds the locals of all its frames.                              *)
(***************************************************************************)
NoUrl == [origin |-> 0, rest |-> <<>>]

\* _get_robots_parser returning None
NoParser == [kind |-> "none", rule |-> <<>>]

\* A result dict: the extracted fields, and the "url" key scrape_multiple adds.
EmptyRecord == [fields |-> <<>>, url |-> NoUrl]

\* An entry of the history of one scrape() call.
Event(e, a, b) == [e |-> e, a |-> a, b |-> b]

LocInit ==
    [ ret      |-> "idle",        \* label to continue at when the callee returns
      policy   |-> "round-robin", \* get_proxy: rotation_policy
      proxies  |-> NoList,        \* get_proxy: proxies
      proxy    |-> NoProxy,       \* get_proxy: proxy, and its return value
      raised   |-> FALSE,         \* the callee raised instead of returning
      url      |-> NoUrl,         \* can_fetch, scrape: url
      path     |-> <<>>,          \* can_fetch: path
      read     |-> "none",        \* can_fetch: how parser.read() ended, if called
      parser   |-> NoParser,      \* can_fetch: parser
      allowed  |-> TRUE,          \* can_fetch: return value
      url_i    |-> 0,             \* scrape_multiple: position in urls
      attempt  |-> 0,             \* tenacity: attempt number of _fetch_page
      ua       |-> 0,             \* session.headers["User-Agent"]: 0 is config.user_agent
      html     |-> 0,             \* scrape: html (0: none)
      result   |-> EmptyRecord,   \* scrape: result
      soup     |-> <<>>,          \* scrape: soup, when the caller supplies the page
      schema   |-> <<>>,          \* scrape: schema, when the caller supplies it
      data     |-> [is_dict |-> FALSE, items |-> <<>>],   \* export: data
      file     |-> <<>>,          \* export: the file at output_path
      arg_s    |-> "",            \* Scraper: engine; export: the exporter name
      exported |-> "none",        \* export: return value
      given    |-> <<>>,          \* history: the config as the caller constructed it
      results  |-> <<>>,          \* scrape_multiple: results
      arg      |-> NoProxy,       \* add_proxy, remove_proxy: proxy
      fn       |-> "none",        \* which of get_crawl_delay, .. is running
      i        |-> 0,             \* filter_working_proxies: entries submitted so far
      working  |-> <<>>,          \* filter_working_proxies: working_proxies
      before   |-> <<>>,          \* history: the pool refresh_proxies started from
      probes   |-> <<>> ]         \* history: how the test_proxy calls ended, in order

\* The callee returns: the caller continues at its return label.
Return(t, l) == /\ pc' = [pc EXCEPT ![t] = l.ret]
                /\ loc' = [loc EXCEPT ![t] = l]

Goto(t, label, l) == /\ pc' = [pc EXCEPT ![t] = label]
                     /\ loc' = [loc EXCEPT ![t] = l]

\* The locals of a caller l once it has called get_proxy(_, policy).
EnterGetProxy(l, policy, ret) ==
    [l EXCEPT !.ret = ret, !.policy = policy, !.proxies = NoList,
              !.proxy = NoProxy, !.raised = FALSE]

\* The locals of a caller l once it has called can_fetch(url).
EnterCanFetch(l, url, ret) ==
    [l EXCEPT !.ret = ret, !.url = url, !.path = <<>>, !.read = "none",
              !.parser = NoParser, !.allowed = TRUE]

(***************************************************************************)
(* utils/proxy_manager.py                                                  *)
(***************************************************************************)
\* The list object a reference denotes.
ListOf(ref) == IF ref = NoList THEN <<>> ELSE lists[ref]

\* `with lock:` can be entered.
AcquirableAlways(lock) == TRUE

Acquirable(lock) == lock = NoThread

\* _current_proxy_index = (_current_proxy_index + 1) % len(proxies)
NextIndexStuck(i, n) == i

NextIndex(i, n) == (i + 1) % n

\* The list objects that the cache or a local variable refers to.
Referenced(cache, locals) == ({cache} \cup {locals[t].proxies : t \in Threads}) \ {NoList}

\* The identity given to a newly created list: the first one not in use.
FreshRef == CHOOSE r \in 1 .. Len(lists) + 1 :
                /\ r \notin Referenced(proxies_cache, loc)
                /\ \A q \in 1 .. r - 1 : q \in Referenced(proxies_cache, loc)

\* lists with a new list object of the given content at FreshRef.
NewList(content) ==
    IF FreshRef > Len(lists) THEN Append(lists, content)
    ELSE [lists EXCEPT ![FreshRef] = content]

\* A list object nothing refers to any more is gone.
Collect(ls, cache, locals) ==
    [r \in DOMAIN ls |-> IF r \in Referenced(cache, locals) THEN ls[r] ELSE <<>>]

\* _load_proxies(file_path): the whole body runs inside `with _proxies_lock`.
\* Yields <<reference returned, _proxies_cache after, lists after>>.
LoadProxies ==
    IF proxies_cache # NoList
    THEN <<proxies_cache, proxies_cache, lists>>
    ELSE IF ~proxy_file.exists \/ proxy_file.lines = <<>>
         THEN <<NoList, proxies_cache, lists>>
         ELSE <<FreshRef, FreshRef, NewList(proxy_file.lines)>>

\* Line 76 with the list never taken for empty.
NoProxiesNever(ref, ls) == FALSE

\* get_proxy, line 76: `not proxies`.
NoProxies(ref, ls) == ref = NoList \/ ls[ref] = <<>>

\* get_proxy, lines 74-77: proxies = _load_proxies(file_path);
\* if not proxies: return None
GetProxyLoad(t) ==
    /\ pc[t] = "gp_load"
    /\ Acquirable(proxies_lock)
    /\ LET r == LoadProxies
           l == [loc[t] EXCEPT !.proxies = r[1], !.proxy = NoProxy, !.raised = FALSE]
       IN /\ proxies_cache' = r[2]
          /\ lists' = r[3]
          /\ IF NoProxies(r[1], r[3])
             THEN Return(t, l)
             ELSE Goto(t, "gp_lock", l)
    /\ UNCHANGED <<proxy_file, proxies_lock, current_proxy_index, robotsVars,
                   config, job_status, now, robots_txt, uaVars, histVars>>

\* get_proxy, line 80: with _proxies_lock:
GetProxyAcquire(t) ==
    /\ pc[t] = "gp_lock"
    /\ Acquirable(proxies_lock)
    /\ proxies_lock' = t
    /\ Goto(t, "gp_pick", loc[t])
    /\ UNCHANGED <<proxy_file, lists, proxies_cache, current_proxy_index,
                   robotsVars, config, job_status, now, robots_txt, uaVars, histVars>>

\* get_proxy, lines 81-84 and 87-89: random.choice(proxies), which raises
\* IndexError on an empty list, or proxy = proxies[_current_proxy_index],
\* which raises IndexError past the end.
GetProxyPick(t) ==
    /\ pc[t] = "gp_pick"
    /\ LET ps == ListOf(loc[t].proxies)
       IN IF loc[t].policy = "round-robin"
          THEN IF current_proxy_index + 1 \in DOMAIN ps
               THEN /\ Goto(t, "gp_advance",
                            [loc[t] EXCEPT !.proxy = ps[current_proxy_index + 1]])
                    /\ picks' = Tail_n(Append(picks, ps[current_proxy_index + 1]),
                                       Len(ps))
                    /\ UNCHANGED proxies_lock
               ELSE /\ Return(t, [loc[t] EXCEPT !.raised = TRUE])
                    /\ proxies_lock' = NoThread
                    /\ UNCHANGED picks
          ELSE /\ IF ps = <<>>
                  THEN Return(t, [loc[t] EXCEPT !.raised = TRUE])
                  ELSE \E i \in DOMAIN ps : Return(t, [loc[t] EXCEPT !.proxy = ps[i]])
               /\ proxies_lock' = NoThread
               /\ UNCHANGED picks
    /\ UNCHANGED <<proxy_file, lists, proxies_cache, current_proxy_index,
                   robotsVars, config, job_status, now, robots_txt, uaVars, events, outcomes,
                   last_request>>

\* get_proxy, lines 85-86: advance the cursor, return proxy (the lock is
\* released on the way out).  On a list that has become empty since the read
\* the modulo raises ZeroDivisionError.
GetProxyAdvance(t) ==
    /\ pc[t] = "gp_advance"
    /\ IF ListOf(loc[t].proxies) # <<>>
       THEN /\ current_proxy_index' =
                   NextIndex(current_proxy_index, Len(ListOf(loc[t].proxies)))
            /\ Return(t, loc[t])
       ELSE /\ UNCHANGED current_proxy_index
            /\ Return(t, [loc[t] EXCEPT !.proxy = NoProxy, !.raised = TRUE])
    /\ proxies_lock' = NoThread
    /\ UNCHANGED <<proxy_file, lists, proxies_cache, robotsVars, config,
                   job_status, now, robots_txt, uaVars, histVars>>

GetProxy(t) == \/ GetProxyLoad(t)
               \/ GetProxyAcquire(t)
               \/ GetProxyPick(t)
               \/ GetProxyAdvance(t)

(***************************************************************************)
(* urllib.parse and urllib.robotparser, as utils/robots_txt.py calls them. *)
(* A URL is [origin, rest]: rest is what follows scheme://netloc.  The     *)
(* modelled URLs carry no query and no fragment and no percent escapes, so *)
(* rest is the URL's path in the sense of RFC 3986: "/" and ";" and        *)
(* unreserved characters.                                                  *)
(***************************************************************************)
PathChars == {"/", "a", ";"}

\* The modelled paths: empty, or absolute with a non-empty first segment (a
\* leading "//" would be read as the start of a network location).
Paths == {p \in UNION {[1 .. k -> PathChars] : k \in 0 .. MaxPathLen} :
             /\ p # <<>> => p[1] = "/"
             /\ Len(p) >= 2 => p[2] # "/"}

SetMax(S) == CHOOSE x \in S : \A y \in S : y <= x

SetMin(S) == CHOOSE x \in S : \A y \in S : x <= y

\* urllib.parse._splitparams: the parameters are what follows the first ";"
\* of the last path segment.  Yields <<path, params>>.
SplitParams(s) ==
    LET slashes == {i \in DOMAIN s : s[i] = "/"}
        start == IF slashes = {} THEN 1 ELSE SetMax(slashes)
        semis == {i \in DOMAIN s : i >= start /\ s[i] = ";"}
    IN IF semis = {}
       THEN <<s, <<>>>>
       ELSE <<SubSeq(s, 1, SetMin(semis) - 1), SubSeq(s, SetMin(semis) + 1, Len(s))>>

\* urllib.parse.urlparse(url).path does not keep the parameters.
UrlPath(rest) == SplitParams(rest)[1]

\* urlunparse(('', '', path, params, '', '')): empty parameters are dropped.
UrlUnparse(path, params) ==
    IF params = <<>> THEN path ELSE path \o <<";">> \o params

\* urllib.parse.quote with safe="/": ";" becomes %3B.
RECURSIVE Quote(_)
Quote(s) ==
    IF s = <<>> THEN <<>>
    ELSE (IF Head(s) = ";" THEN <<"%", "3", "B">> ELSE <<Head(s)>>) \o Quote(Tail(s))

\* RuleLine.__init__: the rule path as the parser stores it.
RuleLinePath(p) == Quote(UrlUnparse(SplitParams(p)[1], SplitParams(p)[2]))

\* RobotFileParser.read(): a robots.txt that is served is parsed; 401 and 403
\* set disallow_all; other 4xx set allow_all; any other HTTP error leaves the
\* parser as constructed (last_checked = 0); a failure that is no HTTP error
\* (URLError, timeout, undecodable body) propagates out of read().
ReadRaises == {"unreachable", "undecodable"}

ReadEnds == {"served", "http_403", "http_404", "http_500"} \cup ReadRaises

\* The rule paths of the modelled robots.txt files ("Disallow: <path>" in the
\* group that applies to the checker's user agent): the paths that
\* the parser stores as written.  <<>> is a robots.txt without such a rule.
RulePaths == {p \in Paths : /\ p # <<>>
                            /\ UrlUnparse(SplitParams(p)[1], SplitParams(p)[2]) = p}

\* The ways a retrieval of robots.txt can end: <<how read() ends, rule path>>.
Retrievals == {<<"served", rule>> : rule \in RulePaths \cup {<<>>}}
                  \cup {<<end, <<>>>> : end \in ReadEnds \ {"served"}}

ParserAfterRead(end, rule) ==
    CASE end = "served"   -> [kind |-> "parsed", rule |-> rule]
      [] end = "http_403" -> [kind |-> "disallow_all", rule |-> <<>>]
      [] end = "http_404" -> [kind |-> "allow_all", rule |-> <<>>]
      [] OTHER            -> [kind |-> "unread", rule |-> <<>>]

\* RobotFileParser.can_fetch(useragent, url)
ParserCanFetch(parser, url) ==
    CASE parser.kind = "disallow_all" -> FALSE
      [] parser.kind = "allow_all"    -> TRUE
      [] parser.kind = "unread"       -> FALSE
      [] OTHER ->
           LET q == Quote(UrlUnparse(SplitParams(url)[1], SplitParams(url)[2]))
               u == IF q = <<>> THEN <<"/">> ELSE q
           IN parser.rule = <<>> \/ ~StartsWith(u, RuleLinePath(parser.rule))

(***************************************************************************)
(* utils/proxy_manager.py: the operations that change the pool.            *)
(***************************************************************************)
\* list.remove(x): s without the first occurrence of x.
RemoveFirst(s, x) ==
    LET k == SetMin({i \in DOMAIN s : s[i] = x})
    IN SubSeq(s, 1, k - 1) \o SubSeq(s, k + 1, Len(s))

\* proxies = _load_proxies(file_path) at the start of add_proxy (line 195),
\* remove_proxy (line 226) and refresh_proxies (line 167).
LoadInto(t, next) ==
    /\ Acquirable(proxies_lock)
    /\ LET r == LoadProxies
       IN /\ proxies_cache' = r[2]
          /\ lists' = r[3]
          /\ Goto(t, next, [loc[t] EXCEPT !.proxies = r[1]])
    /\ UNCHANGED <<proxy_file, proxies_lock, current_proxy_index, robotsVars,
                   config, job_status, now, robots_txt, uaVars, histVars>>

\* `with _proxies_lock:` of add_proxy (207), remove_proxy (242) and
\* refresh_proxies (176).
AcquireAt(t, next) ==
    /\ Acquirable(proxies_lock)
    /\ proxies_lock' = t
    /\ Goto(t, next, loc[t])
    /\ UNCHANGED <<proxy_file, lists, proxies_cache, current_proxy_index,
                   robotsVars, config, job_status, now, robots_txt, uaVars, histVars>>

AddProxyLoad(t) == pc[t] = "ap_load" /\ LoadInto(t, "ap_check")

\* add_proxy, lines 197-199.
AddProxyCheck(t) ==
    /\ pc[t] = "ap_check"
    /\ IF loc[t].arg \in Range(ListOf(loc[t].proxies))
       THEN Return(t, loc[t])
       ELSE Goto(t, "ap_write", loc[t])
    /\ UNCHANGED <<poolVars, robotsVars, config, job_status, now, robots_txt, uaVars, histVars>>

\* add_proxy, lines 202-204 and 212-213: the line is appended to the file, or
\* the write fails and the function returns.
AddProxyWrite(t) ==
    /\ pc[t] = "ap_write"
    /\ \E ok \in IF Len(proxy_file.lines) < MaxFileLen THEN BOOLEAN ELSE {FALSE} :
         IF ok
         THEN /\ proxy_file' = [exists |-> TRUE,
                                lines |-> Append(proxy_file.lines, loc[t].arg)]
              /\ Goto(t, "ap_lock", loc[t])
         ELSE /\ UNCHANGED proxy_file
              /\ Return(t, loc[t])
    /\ UNCHANGED <<lists, proxies_cache, proxies_lock, current_proxy_index,
                   robotsVars, config, job_status, now, robots_txt, uaVars, histVars>>

AddProxyAcquire(t) == pc[t] = "ap_lock" /\ AcquireAt(t, "ap_append")

\* add_proxy, lines 208-209.
AddProxyAppend(t) ==
    /\ pc[t] = "ap_append"
    /\ lists' = IF proxies_cache # NoList
                THEN [lists EXCEPT ![proxies_cache] = Append(@, loc[t].arg)]
                ELSE lists
    /\ proxies_lock' = NoThread
    /\ Return(t, loc[t])
    /\ picks' = <<>>
    /\ UNCHANGED <<proxy_file, proxies_cache, current_proxy_index, robotsVars,
                   config, job_status, now, robots_txt, uaVars, events, outcomes,
                   last_request>>

AddProxy(t) == \/ AddProxyLoad(t)
               \/ AddProxyCheck(t)
               \/ AddProxyWrite(t)
               \/ AddProxyAcquire(t)
               \/ AddProxyAppend(t)

RemoveProxyLoad(t) == pc[t] = "rp_load" /\ LoadInto(t, "rp_check")

\* remove_proxy, lines 228-230.
RemoveProxyCheck(t) ==
    /\ pc[t] = "rp_check"
    /\ IF loc[t].arg \notin Range(ListOf(loc[t].proxies))
       THEN Return(t, loc[t])
       ELSE Goto(t, "rp_remove", loc[t])
    /\ UNCHANGED <<poolVars, robotsVars, config, job_status, now, robots_txt, uaVars, histVars>>

\* remove_proxy, line 233: proxies.remove(proxy) on the list _load_proxies
\* returned, which is the cached list object; ValueError if the entry is gone.
RemoveProxyRemove(t) ==
    /\ pc[t] = "rp_remove"
    /\ IF loc[t].arg \in Range(ListOf(loc[t].proxies))
       THEN /\ lists' = [lists EXCEPT ![loc[t].proxies] = RemoveFirst(@, loc[t].arg)]
            /\ picks' = <<>>
            /\ Goto(t, "rp_write", loc[t])
       ELSE /\ UNCHANGED <<lists, picks>>
            /\ Return(t, [loc[t] EXCEPT !.raised = TRUE])
    /\ UNCHANGED <<proxy_file, proxies_cache, proxies_lock, current_proxy_index,
                   robotsVars, config, job_status, now, robots_txt, uaVars, events, outcomes,
                   last_request>>

\* remove_proxy, lines 236-239 and 247-248: the file is rewritten from the
\* list, or the write fails and the function returns.
RemoveProxyWrite(t) ==
    /\ pc[t] = "rp_write"
    /\ \E ok \in BOOLEAN :
         IF ok
         THEN /\ proxy_file' = [exists |-> TRUE, lines |-> ListOf(loc[t].proxies)]
              /\ Goto(t, "rp_lock", loc[t])
         ELSE /\ UNCHANGED proxy_file
              /\ Return(t, loc[t])
    /\ UNCHANGED <<lists, proxies_cache, proxies_lock, current_proxy_index,
                   robotsVars, config, job_status, now, robots_txt, uaVars, histVars>>

RemoveProxyAcquire(t) == pc[t] = "rp_lock" /\ AcquireAt(t, "rp_set")

\* remove_proxy, lines 243-244.
RemoveProxySet(t) ==
    /\ pc[t] = "rp_set"
    /\ proxies_cache' = IF proxies_cache # NoList THEN loc[t].proxies
                        ELSE proxies_cache
    /\ proxies_lock' = NoThread
    /\ Return(t, loc[t])
    /\ picks' = <<>>
    /\ UNCHANGED <<proxy_file, lists, current_proxy_index, robotsVars, config,
                   job_status, now, robots_txt, uaVars, events, outcomes, last_request>>

RemoveProxy(t) == \/ RemoveProxyLoad(t)
                  \/ RemoveProxyCheck(t)
                  \/ RemoveProxyRemove(t)
                  \/ RemoveProxyWrite(t)
                  \/ RemoveProxyAcquire(t)
                  \/ RemoveProxySet(t)

\* refresh_proxies, lines 167-170.
RefreshLoad(t) == pc[t] = "rf_load" /\ LoadInto(t, "rf_check")

RefreshCheck(t) ==
    /\ pc[t] = "rf_check"
    /\ IF ListOf(loc[t].proxies) = <<>>
       THEN Return(t, loc[t])
       ELSE Goto(t, "rf_filter", [loc[t] EXCEPT !.i = 0, !.working = <<>>,
                                               !.before = ListOf(loc[t].proxies)])
    /\ UNCHANGED <<poolVars, robotsVars, config, job_status, now, robots_txt, uaVars, histVars>>

\* test_proxy(proxy, timeout): True on status 200; False on any other status
\* and on any exception.
ProbeEnds == {"200", "other status", "raises"}

TestProxyAlways(end) == TRUE

TestProxy(end) == end = "200"

\* filter_working_proxies, lines 136-153: the entries are taken from the list
\* one by one, in order, and an entry is kept iff its test_proxy returned
\* True; the results are read in the order of submission.
RefreshFilter(t) ==
    /\ pc[t] = "rf_filter"
    /\ LET ps == ListOf(loc[t].proxies)
           k == loc[t].i + 1
       IN IF k \in DOMAIN ps
          THEN \E end \in ProbeEnds :
                 Goto(t, "rf_filter",
                      [loc[t] EXCEPT !.i = k,
                                     !.probes = Append(@, end),
                                     !.working = IF TestProxy(end)
                                                 THEN Append(@, ps[k]) ELSE @])
          ELSE Goto(t, "rf_lock", loc[t])
    /\ UNCHANGED <<poolVars, robotsVars, config, job_status, now, robots_txt, uaVars, histVars>>

RefreshAcquire(t) == pc[t] = "rf_lock" /\ AcquireAt(t, "rf_replace")

\* refresh_proxies, lines 176-177: _proxies_cache = working_proxies.
RefreshReplace(t) ==
    /\ pc[t] = "rf_replace"
    /\ proxies_cache' = FreshRef
    /\ lists' = NewList(loc[t].working)
    /\ proxies_lock' = NoThread
    /\ Return(t, loc[t])
    /\ picks' = <<>>
    /\ UNCHANGED <<proxy_file, current_proxy_index, robotsVars, config,
                   job_status, now, robots_txt, uaVars, events, outcomes, last_request>>

RefreshProxies(t) == \/ RefreshLoad(t)
                     \/ RefreshCheck(t)
                     \/ RefreshFilter(t)
                     \/ RefreshAcquire(t)
                     \/ RefreshReplace(t)

(***************************************************************************)
(* utils/robots_txt.py                                                     *)
(***************************************************************************)
\* A function without the keys in S.
Without(f, S) == [k \in DOMAIN f \ S |-> f[k]]

\* _cleanup_old_parsers, lines 127-135: the k entries that come first by
\* last-used time are deleted.  sorted() orders equal last-used times by
\* insertion; the model allows every order among them.
RECURSIVE RemoveOldest(_, _, _)
RemoveOldest(parsers, last_used, k) ==
    IF k <= 0
    THEN {<<parsers, last_used>>}
    ELSE UNION {RemoveOldest(Without(parsers, {o}), Without(last_used, {o}), k - 1) :
                   o \in {o \in DOMAIN last_used :
                             \A q \in DOMAIN last_used : last_used[o] <= last_used[q]}}

\* Lines 114-115 with nothing ever deleted.
CleanupOldParsersNever(parsers, last_used, time) == {<<parsers, last_used>>}

\* Lines 114-125 with the entries older than the TTL deleted whatever the size.
CleanupOldParsersByTtl(parsers, last_used, time) ==
    LET old == {o \in DOMAIN parsers :
                    time - last_used[o] > robots_parsers_cache_ttl}
        ps == Without(parsers, old)
        lu == Without(last_used, old)
    IN RemoveOldest(ps, lu, Cardinality(DOMAIN ps) - robots_parsers_max_cache_size)

\* _cleanup_old_parsers: the states it can leave the cache in, each
\* <<_robots_parsers, _robots_parsers_last_used>>.
CleanupOldParsers(parsers, last_used, time) ==
    IF Cardinality(DOMAIN parsers) <= robots_parsers_max_cache_size
    THEN {<<parsers, last_used>>}
    ELSE LET old == {o \in DOMAIN parsers :
                         time - last_used[o] > robots_parsers_cache_ttl}
             ps == Without(parsers, old)
             lu == Without(last_used, old)
         IN RemoveOldest(ps, lu,
                         Cardinality(DOMAIN ps) - robots_parsers_max_cache_size)

\* can_fetch, lines 46-54: the origin and the path that is checked.
CheckedPath(url) == IF UrlPath(url.rest) = <<>> THEN <<"/">> ELSE UrlPath(url.rest)

\* can_fetch, lines 59-63: the answer for the parser _get_robots_parser gave.
GateAnswer(parser, path) ==
    IF parser.kind # "none" THEN ParserCanFetch(parser, path) ELSE TRUE

\* _get_robots_parser, line 86: if base_url in _robots_parsers
CachedNever(parsers, o) == FALSE

Cached(parsers, o) == o \in DOMAIN parsers

\* can_fetch up to the cache lookup of _get_robots_parser (lines 46-54 and
\* 81-93): on a hit the call returns; on a miss the thread goes on to
\* parser.read() with _robots_parsers_lock held.
CanFetchEnter(t) ==
    /\ pc[t] = "cf_enter"
    /\ Acquirable(robots_parsers_lock)
    /\ \E c \in CleanupOldParsers(robots_parsers, robots_parsers_last_used, now) :
         LET o == loc[t].url.origin
             path == CheckedPath(loc[t].url)
         IN IF Cached(c[1], o)
            THEN /\ robots_parsers' = c[1]
                 /\ robots_parsers_last_used' = [c[2] EXCEPT ![o] = now]
                 /\ UNCHANGED robots_parsers_lock
                 /\ Return(t, [loc[t] EXCEPT !.path = path, !.read = "none",
                                             !.parser = c[1][o],
                                             !.allowed = GateAnswer(c[1][o], path)])
            ELSE /\ robots_parsers' = c[1]
                 /\ robots_parsers_last_used' = c[2]
                 /\ robots_parsers_lock' = t
                 /\ Goto(t, "cf_read", [loc[t] EXCEPT !.path = path, !.read = "none",
                                                     !.parser = NoParser])
    /\ UNCHANGED <<poolVars, config, job_status, now, robots_txt, uaVars, histVars>>

\* _get_robots_parser, lines 95-105, and the rest of can_fetch: parser.read()
\* ends, the parser is cached unless read() raised, the lock is released.
CanFetchRead(t) ==
    /\ pc[t] = "cf_read"
    /\ \E r \in robots_txt[loc[t].url.origin] :
         /\ LET o == loc[t].url.origin
                end == r[1]
                parser == IF end \in ReadRaises THEN NoParser
                          ELSE ParserAfterRead(end, r[2])
            IN /\ IF end \in ReadRaises
                  THEN UNCHANGED <<robots_parsers, robots_parsers_last_used>>
                  ELSE /\ robots_parsers' = (o :> parser) @@ robots_parsers
                       /\ robots_parsers_last_used' =
                              (o :> now) @@ robots_parsers_last_used
               /\ Return(t, [loc[t] EXCEPT !.read = end, !.parser = parser,
                                           !.allowed = GateAnswer(parser, loc[t].path)])
    /\ robots_parsers_lock' = NoThread
    /\ UNCHANGED <<poolVars, config, job_status, now, robots_txt, uaVars, histVars>>

CanFetch(t) == CanFetchEnter(t) \/ CanFetchRead(t)

\* get_crawl_delay (137-163), get_request_rate (165-191) and get_sitemaps
\* (193-218): module functions that build a RobotFileParser of their own,
\* read robots.txt into it and answer from it; a read() that raises is caught.
DerivedFacts == {"get_crawl_delay", "get_request_rate", "get_sitemaps"}

\* One call of such a function on the given URL, from the call to the return:
\* it takes no lock and reads and writes nothing other threads share.
DerivedFact(t, f, url) ==
    /\ pc[t] = "idle"
    /\ \E r \in robots_txt[url.origin] :
         Return(t, [EnterCanFetch(loc[t], url, "returned") EXCEPT
                        !.fn = f,
                        !.read = r[1],
                        !.parser = IF r[1] \in ReadRaises THEN NoParser
                                   ELSE ParserAfterRead(r[1], r[2])])
    /\ UNCHANGED <<poolVars, robotsVars, config, job_status, now, robots_txt, uaVars, histVars>>

(***************************************************************************)
(* engines/requests_engine.py: _extract_data.  A document maps a selector  *)
(* to the elements it matches, in document order; an element has the       *)
(* sequence of its text strings and its attributes; a text is a sequence   *)
(* of characters.                                                          *)
(***************************************************************************)
Null == [kind |-> "null", text |-> <<>>, items |-> <<>>]

Scalar(text) == [kind |-> "scalar", text |-> text, items |-> <<>>]

\* A Python list of values.
Many(values) == [kind |-> "list", text |-> <<>>, items |-> values]

\* A field_schema that is a str.
Plain(selector) ==
    [type |-> "str", selector |-> selector, attribute |-> "", multiple |-> FALSE,
     processors |-> <<>>]

\* A field_schema that is a dict; "" stands for a key that is absent or empty.
Structured(selector, attribute, multiple, processors) ==
    [type |-> "dict", selector |-> selector, attribute |-> attribute,
     multiple |-> multiple, processors |-> processors]

RECURSIVE Strip(_)
\* str.strip() of a text whose only whitespace character is " ".
Strip(text) ==
    IF text = <<>> THEN <<>>
    ELSE IF Head(text) = " " THEN Strip(Tail(text))
    ELSE IF Last(text) = " " THEN Strip(SubSeq(text, 1, Len(text) - 1))
    ELSE text

RECURSIVE JoinStripped(_)
\* "".join of the stripped strings; the empty ones add nothing.
JoinStripped(strings) ==
    IF strings = <<>> THEN <<>>
    ELSE Strip(Head(strings)) \o JoinStripped(Tail(strings))

\* element.get_text(strip=True)
GetTextStrip(element) == JoinStripped(element.strings)

\* soup.select(selector)
Select(doc, selector) == IF selector \in DOMAIN doc THEN doc[selector] ELSE <<>>

\* Lines 101-113 with the first element's text whenever there are elements.
ExtractPlainFirst(doc, selector) ==
    LET elements == Select(doc, selector)
    IN IF elements # <<>> THEN Scalar(GetTextStrip(elements[1])) ELSE Null

\* _extract_data, lines 101-113: one plain-selector field.
ExtractPlain(doc, selector) ==
    LET elements == Select(doc, selector)
    IN IF elements # <<>>
       THEN IF Len(elements) > 1
            THEN Many([i \in DOMAIN elements |-> Scalar(GetTextStrip(elements[i]))])
            ELSE Scalar(GetTextStrip(elements[1]))
       ELSE Null

\* How a call that may raise ended.
Returned(value) == [raised |-> FALSE, value |-> value]

Raised == [raised |-> TRUE, value |-> Null]

\* processor(value), line 145, for four callables a schema may name:
\*   "first"    lambda v: v[:1]
\*   "exclaim"  lambda v: v + "!"
\*   "or_none"  lambda v: v or None
\*   "no_y"     raises ValueError on a text that contains "y"
Process(processor, text) ==
    CASE processor = "first"   -> Returned(Scalar(SubSeq(text, 1, IF text = <<>> THEN 0 ELSE 1)))
      [] processor = "exclaim" -> Returned(Scalar(text \o <<"!">>))
      [] processor = "or_none" -> Returned(IF text = <<>> THEN Null ELSE Scalar(text))
      [] processor = "no_y"    -> IF "y" \in Range(text) THEN Raised ELSE Returned(Scalar(text))

RECURSIVE ApplyProcessors(_, _)
\* Lines 143-145: the processors in order; one is called only while the value
\* is not None, and what it raises is not caught here.
ApplyProcessors(processors, value) ==
    IF processors = <<>> THEN Returned(value)
    ELSE IF value # Null
         THEN LET r == Process(Head(processors), value.text)
              IN IF r.raised THEN Raised ELSE ApplyProcessors(Tail(processors), r.value)
         ELSE ApplyProcessors(Tail(processors), value)

\* Lines 135-140 with the attribute ignored.
ElementValueText(element, attribute) == Scalar(GetTextStrip(element))

\* Lines 135-140: element.get(attribute), None when the element has no such
\* attribute, or the text when the field names no attribute.
ElementValue(element, attribute) ==
    IF attribute # ""
    THEN IF attribute \in DOMAIN element.attrs THEN Scalar(element.attrs[attribute])
         ELSE Null
    ELSE Scalar(GetTextStrip(element))

\* What _extract_data does for one field: it sets result[field_name], leaves
\* the field out, or raises.
FieldSet(value) == [end |-> "set", value |-> value]

FieldSkipped == [end |-> "skipped", value |-> Null]

FieldRaised == [end |-> "raised", value |-> Null]

\* Line 129 with None in both cases.
NoMatchNone(multiple) == Null

\* Line 129: `[] if multiple else None`.
NoMatch(multiple) == IF multiple THEN Many(<<>>) ELSE Null

\* _extract_data, lines 117-153: one field whose schema is a dict.
ExtractStructured(doc, field_schema) ==
    LET elements == Select(doc, field_schema.selector)
        extracted == [i \in DOMAIN elements |->
                         ApplyProcessors(field_schema.processors,
                                         ElementValue(elements[i], field_schema.attribute))]
        extracted_data == [i \in DOMAIN elements |-> extracted[i].value]
    IN IF field_schema.selector = "" THEN FieldSkipped
       ELSE IF elements = <<>> THEN FieldSet(NoMatch(field_schema.multiple))
       ELSE IF \E i \in DOMAIN elements : extracted[i].raised THEN FieldRaised
       ELSE IF field_schema.multiple THEN FieldSet(Many(extracted_data))
       ELSE FieldSet(extracted_data[1])

\* _extract_data, lines 99-153: one iteration of the loop over schema.items().
ExtractField(doc, field_schema) ==
    IF field_schema.type = "str" THEN FieldSet(ExtractPlain(doc, field_schema.selector))
    ELSE ExtractStructured(doc, field_schema)

\* _extract_data: it raises when a field raises, whatever came before, and
\* otherwise returns the fields that were set.
ExtractData(doc, schema) ==
    LET fields == [f \in DOMAIN schema |-> ExtractField(doc, schema[f])]
    IN IF \E f \in DOMAIN schema : fields[f].end = "raised"
       THEN [raised |-> TRUE, value |-> <<>>]
       ELSE [raised |-> FALSE,
             value  |-> [f \in {g \in DOMAIN schema : fields[g].end = "set"} |->
                            fields[f].value]]

\* engine.scrape, lines 173-181, once the page is fetched: the extracted
\* dict, or {} when the extraction raised.
ScrapeParsed(doc, schema) ==
    LET result == ExtractData(doc, schema)
    IN IF result.raised THEN <<>> ELSE result.value

(***************************************************************************)
(* exporters/csv_exporter.py: CSVExporter.export.  A record is the         *)
(* sequence of its <<key, value>> pairs in insertion order, a key is a     *)
(* text, the file is the sequence of its lines and a line the sequence of  *)
(* its fields as written.                                                  *)
(***************************************************************************)
\* A Python dict as a value: its <<key, value>> pairs.
Mapping(pairs) == [kind |-> "dict", text |-> <<>>, items |-> pairs]

RECURSIVE Join(_, _)
\* sep.join(parts)
Join(parts, sep) ==
    IF parts = <<>> THEN <<>>
    ELSE IF Len(parts) = 1 THEN parts[1]
    ELSE parts[1] \o sep \o Join(Tail(parts), sep)

\* repr() of None or of a str without quotes and backslashes.
Repr(value) ==
    IF value = Null THEN <<"N", "o", "n", "e">> ELSE <<"'">> \o value.text \o <<"'">>

\* str() of a list or dict of such values.
Str(value) ==
    IF value.kind = "list"
    THEN <<"[">> \o Join([i \in DOMAIN value.items |-> Repr(value.items[i])],
                        <<",", " ">>) \o <<"]">>
    ELSE <<"{">> \o Join([i \in DOMAIN value.items |->
                             Repr(Scalar(value.items[i][1])) \o <<":", " ">>
                                 \o Repr(value.items[i][2])],
                        <<",", " ">>) \o <<"}">>

\* Lines 72-75: a list or dict becomes its str(), other values stay.
RowValue(value) ==
    IF value.kind \in {"list", "dict"} THEN Scalar(Str(value)) ELSE value

\* item.keys()
KeysOf(item) == [i \in DOMAIN item |-> item[i][1]]

RECURSIVE AppendNew(_, _)
\* Lines 54-56: the keys not yet among the fieldnames are appended, in order.
AppendNew(fieldnames, keys) ==
    IF keys = <<>> THEN fieldnames
    ELSE AppendNew(IF Head(keys) \in Range(fieldnames) THEN fieldnames
                   ELSE Append(fieldnames, Head(keys)),
                   Tail(keys))

RECURSIVE AddFields(_, _)
\* Lines 53-56: the loop over data[1:].
AddFields(fieldnames, items) ==
    IF items = <<>> THEN fieldnames
    ELSE AddFields(AppendNew(fieldnames, KeysOf(Head(items))), Tail(items))

\* Lines 50-56 without the loop over the other items.
FieldnamesOfFirst(data) == KeysOf(data[1])

\* Lines 50-56: the keys of the first item, then the new keys of the others.
Fieldnames(data) == AddFields(KeysOf(data[1]), Tail(data))

RECURSIVE DoubleQuotes(_)
\* The quotechar inside a quoted field is written twice.
DoubleQuotes(text) ==
    IF text = <<>> THEN <<>>
    ELSE (IF Head(text) = "\"" THEN <<"\"", "\"">> ELSE <<Head(text)>>)
             \o DoubleQuotes(Tail(text))

\* csv.QUOTE_MINIMAL: a field with the delimiter, the quotechar or a line
\* break in it is quoted.
QuoteMinimal(text) ==
    IF \E c \in Range(text) : c \in {",", "\"", "\r", "\n"}
    THEN <<"\"">> \o DoubleQuotes(text) \o <<"\"">>
    ELSE text

\* writer.writerow: None is written as the empty string; a line that would be
\* empty because its only field is empty gets that field quoted.
WriteRow(values) ==
    LET texts == [i \in DOMAIN values |->
                     IF values[i] = Null THEN <<>> ELSE values[i].text]
    IN IF Len(texts) = 1 /\ texts[1] = <<>> THEN << <<"\"", "\"">> >>
       ELSE [i \in DOMAIN texts |-> QuoteMinimal(texts[i])]

\* DictWriter._dict_to_list: the row's value of every fieldname, restval ""
\* for a key the row lacks.
DictToList(fieldnames, row) ==
    [c \in DOMAIN fieldnames |->
        IF \E i \in DOMAIN row : row[i][1] = fieldnames[c]
        THEN row[CHOOSE i \in DOMAIN row : row[i][1] = fieldnames[c]][2]
        ELSE Scalar(<<>>)]

\* export, lines 37-82: the file it writes for data, which is a dict or a
\* list of dicts.
Export(data) ==
    LET items == data.items
        fieldnames == Fieldnames(items)
    IN IF items = <<>> THEN <<>>
       ELSE <<WriteRow([c \in DOMAIN fieldnames |-> Scalar(fieldnames[c])])>>
                \o [r \in DOMAIN items |->
                       WriteRow(DictToList(fieldnames,
                                           [i \in DOMAIN items[r] |->
                                               <<items[r][i][1],
                                                 RowValue(items[r][i][2])>>]))]

(***************************************************************************)
(* exporters/json_exporter.py: JSONExporter.export.  The file is the       *)
(* sequence of its characters.                                             *)
(***************************************************************************)
Spaces(n) == [i \in 1 .. n |-> " "]

\* json.dumps of one character of a str, quotes and backslashes left as
\* they are.
EscapeCharControlOnly(c) ==
    IF c = "\n" THEN <<"\\", "n">> ELSE <<c>>

\* json.dumps of one character of a str with ensure_ascii=False.
EscapeChar(c) ==
    CASE c = "\"" -> <<"\\", "\"">>
      [] c = "\\" -> <<"\\", "\\">>
      [] c = "\n" -> <<"\\", "n">>
      [] OTHER    -> <<c>>

RECURSIVE Escape(_)
Escape(text) ==
    IF text = <<>> THEN <<>> ELSE EscapeChar(Head(text)) \o Escape(Tail(text))

\* json.dumps of a str.
DumpString(text) == <<"\"">> \o Escape(text) \o <<"\"">>

RECURSIVE Dumps(_, _)
\* json.dump(value, f, ensure_ascii=False, indent=2) of a value nested at
\* the given level: None, a str, a list or a dict with str keys.
Dumps(value, level) ==
    LET inner == <<"\n">> \o Spaces(2 * (level + 1))
        outer == <<"\n">> \o Spaces(2 * level)
    IN CASE value.kind = "null"   -> <<"n", "u", "l", "l">>
         [] value.kind = "scalar" -> DumpString(value.text)
         [] value.kind = "list"   ->
                IF value.items = <<>> THEN <<"[", "]">>
                ELSE <<"[">> \o inner
                         \o Join([i \in DOMAIN value.items |->
                                     Dumps(value.items[i], level + 1)],
                                 <<",">> \o inner)
                         \o outer \o <<"]">>
         [] value.kind = "dict"   ->
                IF value.items = <<>> THEN <<"{", "}">>
                ELSE <<"{">> \o inner
                         \o Join([i \in DOMAIN value.items |->
                                     DumpString(value.items[i][1]) \o <<":", " ">>
                                         \o Dumps(value.items[i][2], level + 1)],
                                 <<",">> \o inner)
                         \o outer \o <<"}">>

\* The Python value of data: a dict, or a list of dicts.
DataValue(data) ==
    IF data.is_dict THEN Mapping(data.items[1])
    ELSE Many([i \in DOMAIN data.items |-> Mapping(data.items[i])])

\* export, lines 33-35: the file it writes.
JsonExportFile(data) == Dumps(DataValue(data), 0)

(***************************************************************************)
(* The job: its URLs, the pages behind them and the schema.                *)
(***************************************************************************)
\* URLs 1 and 2 are of origin 1, the others of origin 2.
JobUrl(i) == [origin |-> IF i <= 2 THEN 1 ELSE 2,
              rest   |-> IF i % 2 = 1 THEN <<"/", "a">> ELSE <<"/">>]

\* The document served for URL i: i nodes match "h1".
Page(i) ==
    [sel \in {"h1"} |->
        [k \in 1 .. (i % 3) |-> [strings |-> << <<" ", "x">>, <<"y", " ">> >>,
                                 attrs   |-> <<>>]]]

JobSchema == [f \in {"title"} |-> Plain("h1")]

UserAgents == 1 .. 2

\* A user agent file that lists the user agents.
UserAgentFile == [exists |-> TRUE, lines |-> [i \in UserAgents |-> i]]

\* DEFAULT_USER_AGENTS: two of its nine entries.
DefaultUserAgents == <<-1, -2>>

\* _load_user_agents(file_path), lines 52-76.  Yields <<list returned,
\* _user_agents_cache after>>.
LoadUserAgents ==
    IF user_agents_cache # <<>> THEN <<user_agents_cache, user_agents_cache>>
    ELSE IF ~user_agent_file.exists \/ user_agent_file.lines = <<>>
         THEN <<DefaultUserAgents, user_agents_cache>>
         ELSE <<user_agent_file.lines, user_agent_file.lines>>

(***************************************************************************)
(* scraper.py and engines/requests_engine.py: Scraper.scrape and what it   *)
(* calls.                                                                  *)
(***************************************************************************)
Log(e, a, b) == events' = Append(events, Event(e, a, b))

\* scrape, line 82: self.robots_checker is set iff config.respect_robots_txt.
ScrapeStart(t) ==
    /\ pc[t] = "sc_start"
    /\ IF config.respect_robots_txt
       THEN /\ Goto(t, "cf_enter", EnterCanFetch(loc[t], loc[t].url, "sc_gate"))
            /\ Log("robots", 0, 0)
       ELSE /\ Goto(t, "sc_delay", loc[t])
            /\ UNCHANGED events
    /\ UNCHANGED <<poolVars, robotsVars, config, job_status, now, robots_txt, uaVars, picks,
                   outcomes, last_request>>

\* scrape, lines 82-84: a URL the gate denies is not fetched.
GateDeniesNever(l) == FALSE

GateDenies(l) == ~l.allowed

ScrapeGate(t) ==
    /\ pc[t] = "sc_gate"
    /\ IF GateDenies(loc[t])
       THEN /\ Goto(t, "sm_collect", [loc[t] EXCEPT !.result = EmptyRecord])
            /\ outcomes' = Append(outcomes, "denied")
       ELSE /\ Goto(t, "sc_delay", loc[t])
            /\ UNCHANGED outcomes
    /\ UNCHANGED <<poolVars, robotsVars, config, job_status, now, robots_txt, uaVars, picks,
                   events, last_request>>

\* scrape, lines 87-93: time.sleep(request_delay), then engine.scrape, which
\* calls the retrying _fetch_page.
ScrapeDelay(t) ==
    /\ pc[t] = "sc_delay"
    /\ IF config.request_delay > 0
       THEN /\ now' = now + config.request_delay
            /\ Log("delay", config.request_delay, 0)
       ELSE UNCHANGED <<now, events>>
    /\ Goto(t, "fp_attempt", [loc[t] EXCEPT !.attempt = 0])
    /\ UNCHANGED <<poolVars, robotsVars, config, job_status, robots_txt, uaVars, picks,
                   outcomes, last_request>>

\* _fetch_page, lines 59-66: one attempt, up to the request.
FetchPageAttempt(t) ==
    /\ pc[t] = "fp_attempt"
    /\ \E ua \in IF config.user_agent_rotation THEN Range(LoadUserAgents[1]) ELSE {0} :
         LET rotate == config.user_agent_rotation
             l == [loc[t] EXCEPT !.attempt = @ + 1,
                                 !.ua = IF rotate THEN ua ELSE @,
                                 !.proxy = NoProxy, !.raised = FALSE]
             log == IF rotate THEN Append(events, Event("ua", 0, 0)) ELSE events
         IN IF config.use_proxies
            THEN /\ Goto(t, "gp_load",
                         EnterGetProxy(l, config.proxy_rotation_policy, "fp_request"))
                 /\ events' = Append(log, Event("select", current_proxy_index, 0))
            ELSE /\ Goto(t, "fp_request", l)
                 /\ events' = log
    /\ user_agents_cache' = IF config.user_agent_rotation THEN LoadUserAgents[2]
                            ELSE user_agents_cache
    /\ UNCHANGED <<poolVars, robotsVars, config, job_status, now, robots_txt,
                   user_agent_file, picks, outcomes, last_request>>

\* tenacity: stop=stop_after_attempt(3) on the decorator of _fetch_page.
AttemptsExhausted(attempt) == attempt >= StopAfterAttempt

\* tenacity: a failed attempt is followed by a new call of _fetch_page.
RetryFromDelay == "sc_delay"

RetryFrom == "fp_attempt"

\* _fetch_page, lines 67-84, under @retry, and the except of engine.scrape
\* (lines 179-181): the request is sent unless get_proxy raised; a failed
\* attempt is retried after wait_fixed(2) until stop_after_attempt(3), then
\* RetryError makes engine.scrape, and so Scraper.scrape, return {}.
FetchPageRequest(t) ==
    /\ pc[t] = "fp_request"
    /\ LET o == loc[t].url.origin
           gap == IF last_request[o] < 0 THEN -1 ELSE now - last_request[o]
           sent == ~loc[t].raised
           log == IF sent THEN Append(events, Event("request", loc[t].proxy, gap))
                  ELSE events
       IN /\ last_request' = IF sent THEN [last_request EXCEPT ![o] = now]
                             ELSE last_request
          /\ \E ok \in IF sent THEN BOOLEAN ELSE {FALSE} :
               IF ok
               THEN /\ Goto(t, "en_extract", [loc[t] EXCEPT !.html = loc[t].url_i])
                    /\ events' = log
                    /\ UNCHANGED <<now, outcomes>>
               ELSE IF AttemptsExhausted(loc[t].attempt)
                    THEN /\ Goto(t, "sm_collect", [loc[t] EXCEPT !.result = EmptyRecord])
                         /\ events' = log
                         /\ outcomes' = Append(outcomes, "failed")
                         /\ UNCHANGED now
                    ELSE /\ Goto(t, RetryFrom, loc[t])
                         /\ events' = Append(log, Event("wait", WaitFixed, 0))
                         /\ now' = now + WaitFixed
                         /\ UNCHANGED outcomes
    /\ UNCHANGED <<poolVars, robotsVars, config, job_status, robots_txt, uaVars, picks>>

\* engine.scrape, lines 173-178, and scrape, lines 94-95.
EngineExtract(t) ==
    /\ pc[t] = "en_extract"
    /\ Goto(t, "sm_collect",
            [loc[t] EXCEPT !.result = [fields |-> ScrapeParsed(Page(loc[t].html), JobSchema),
                                       url |-> NoUrl]])
    /\ outcomes' = Append(outcomes, "fetched")
    /\ UNCHANGED <<poolVars, robotsVars, config, job_status, now, robots_txt, uaVars, picks,
                   events, last_request>>

\* `if result:` on a dict.
TruthyAlways(result) == TRUE

TruthyNever(result) == FALSE

Truthy(result) == DOMAIN result.fields # {}

\* scrape_multiple, lines 114-115: the next URL, or the end of the loop.
ScrapeMultipleLoop(t) ==
    /\ pc[t] = "sm_loop"
    /\ IF loc[t].url_i < NumUrls
       THEN /\ Goto(t, "sc_start", [LocInit EXCEPT !.url_i = loc[t].url_i + 1,
                                                  !.url = JobUrl(loc[t].url_i + 1),
                                                  !.results = loc[t].results,
                                                  !.ua = loc[t].ua])
            /\ events' = <<Event("start", current_proxy_index, now)>>
       ELSE /\ Goto(t, "sm_done", loc[t])
            /\ UNCHANGED events
    /\ UNCHANGED <<poolVars, robotsVars, config, job_status, now, robots_txt, uaVars, picks,
                   outcomes, last_request>>

\* scrape_multiple, lines 116-118.
ScrapeMultipleCollect(t) ==
    /\ pc[t] = "sm_collect"
    /\ IF Truthy(loc[t].result)
       THEN Goto(t, "sm_loop",
                 [loc[t] EXCEPT !.results =
                      Append(@, [loc[t].result EXCEPT !.url = loc[t].url])])
       ELSE Goto(t, "sm_loop", loc[t])
    /\ UNCHANGED <<poolVars, robotsVars, config, job_status, now, robots_txt, uaVars, histVars>>

Scrape(t) == \/ ScrapeStart(t)
             \/ ScrapeGate(t)
             \/ ScrapeDelay(t)
             \/ FetchPageAttempt(t)
             \/ FetchPageRequest(t)
             \/ EngineExtract(t)

(***************************************************************************)
(* scheduler/job.py (ScraperJob): the job that runs scrape_multiple on its *)
(* URLs and ends in Succeeded, PartiallyFailed or Failed.                  *)
(***************************************************************************)
TerminalStatuses == {"Succeeded", "PartiallyFailed", "Failed"}

JobStatusOf(records, urls) ==
    IF records = urls THEN "Succeeded"
    ELSE IF records = 0 THEN "Failed"
    ELSE "PartiallyFailed"

JobStart(t) ==
    /\ job_status = "Pending"
    /\ pc[t] = "idle"
    /\ job_status' = "Running"
    /\ Goto(t, "sm_loop", [loc[t] EXCEPT !.url_i = 0, !.results = <<>>])
    /\ UNCHANGED <<poolVars, robotsVars, config, now, robots_txt, uaVars, histVars>>

JobFinish(t) ==
    /\ job_status = "Running"
    /\ pc[t] = "sm_done"
    /\ job_status' = JobStatusOf(Len(loc[t].results), NumUrls)
    /\ Goto(t, "done", loc[t])
    /\ UNCHANGED <<poolVars, robotsVars, config, now, robots_txt, uaVars, histVars>>

(***************************************************************************)
(* Initial states.                                                         *)
(***************************************************************************)
Origins == 1 .. 2

\* ScraperConfig(): the defaults of config.py that the modelled code reads.
DefaultConfig ==
    [ engine                |-> "requests",
      max_retries           |-> 3,
      request_delay         |-> 2,
      use_proxies           |-> FALSE,
      proxy_rotation_policy |-> "round-robin",
      user_agent_rotation   |-> FALSE,
      respect_robots_txt    |-> TRUE ]

\* A proxy file of n lines: the proxies 1 .. n.
ProxyFileOf(n) == [exists |-> TRUE, lines |-> [i \in 1 .. n |-> i]]

MissingFile == [exists |-> FALSE, lines |-> <<>>]

\* The module state at import time, before any call.
ModuleInit ==
    /\ user_agents_cache = <<>>
    /\ lists = <<>>
    /\ proxies_cache = NoList
    /\ proxies_lock = NoThread
    /\ current_proxy_index = 0
    /\ robots_parsers = <<>>
    /\ robots_parsers_last_used = <<>>
    /\ robots_parsers_lock = NoThread
    /\ now = 0
    /\ picks = <<>>
    /\ events = <<>>
    /\ outcomes = <<>>
    /\ last_request = [o \in Origins |-> -1]
    /\ job_status = "Pending"

\* The caller of a get_proxy or can_fetch that has returned takes the value
\* and goes on; the frame is gone.
CallerContinues(t) ==
    /\ pc[t] = "returned"
    /\ Goto(t, "idle", LocInit)
    /\ lists' = Collect(lists, proxies_cache, loc')
    /\ UNCHANGED <<proxy_file, proxies_cache, proxies_lock, current_proxy_index,
                   robotsVars, config, job_status, now, robots_txt, uaVars, histVars>>

(***************************************************************************)
(* SpecPool: threads that call get_proxy concurrently on a pool nobody     *)
(* mutates.                                                                *)
(***************************************************************************)
Policies == {"round-robin", "random", "sticky"}   \* "sticky" is not a known policy

InitPool ==
    /\ ModuleInit
    /\ user_agent_file = UserAgentFile
    /\ robots_txt = [o \in Origins |-> Retrievals]
    /\ proxy_file \in {MissingFile} \cup {ProxyFileOf(n) : n \in 0 .. PoolSize}
    /\ config = DefaultConfig
    /\ pc = [t \in Threads |-> "idle"]
    /\ loc = [t \in Threads |-> LocInit]

\* A caller invokes get_proxy(file_path, rotation_policy).
CallGetProxy(t) ==
    /\ pc[t] = "idle"
    /\ \E p \in Policies :
           Goto(t, "gp_load", EnterGetProxy(loc[t], p, "returned"))
    /\ UNCHANGED <<poolVars, robotsVars, config, job_status, now, robots_txt, uaVars, histVars>>

NextPool == \E t \in Threads : CallGetProxy(t) \/ GetProxy(t) \/ CallerContinues(t)

SpecPool == InitPool /\ [][NextPool]_vars

(***************************************************************************)
(* SpecPoolOps: every thread calls one of get_proxy, add_proxy,            *)
(* remove_proxy and refresh_proxies, and the calls run concurrently.       *)
(* SpecPoolSeq: one caller issues any sequence of these operations, one    *)
(* after another.                                                          *)
(***************************************************************************)
ProxyIds == 1 .. PoolSize

CallAddProxy(t) ==
    /\ pc[t] = "idle"
    /\ \E p \in ProxyIds :
           Goto(t, "ap_load", [loc[t] EXCEPT !.ret = "returned", !.arg = p])
    /\ UNCHANGED <<poolVars, robotsVars, config, job_status, now, robots_txt, uaVars, histVars>>

CallRemoveProxy(t) ==
    /\ pc[t] = "idle"
    /\ \E p \in ProxyIds :
           Goto(t, "rp_load", [loc[t] EXCEPT !.ret = "returned", !.arg = p])
    /\ UNCHANGED <<poolVars, robotsVars, config, job_status, now, robots_txt, uaVars, histVars>>

CallRefreshProxies(t) ==
    /\ pc[t] = "idle"
    /\ Goto(t, "rf_load", [loc[t] EXCEPT !.ret = "returned"])
    /\ UNCHANGED <<poolVars, robotsVars, config, job_status, now, robots_txt, uaVars, histVars>>

PoolOps(t) ==
    \/ CallGetProxy(t)
    \/ CallAddProxy(t)
    \/ CallRemoveProxy(t)
    \/ CallRefreshProxies(t)
    \/ GetProxy(t)
    \/ AddProxy(t)
    \/ RemoveProxy(t)
    \/ RefreshProxies(t)

NextPoolOps == \E t \in Threads : PoolOps(t)

SpecPoolOps == InitPool /\ [][NextPoolOps]_vars

NextPoolSeq == \E t \in Threads : PoolOps(t) \/ CallerContinues(t)

InitPoolSeq ==
    /\ ModuleInit
    /\ user_agent_file = UserAgentFile
    /\ robots_txt = [o \in Origins |-> Retrievals]
    /\ proxy_file \in {MissingFile} \cup {ProxyFileOf(n) : n \in 0 .. PoolSize}
    /\ config = DefaultConfig
    /\ pc = [t \in Threads |-> IF t = 1 THEN "idle" ELSE "off"]
    /\ loc = [t \in Threads |-> LocInit]

SpecPoolSeq == InitPoolSeq /\ [][NextPoolSeq]_vars

(***************************************************************************)
(* SpecRobots: a RobotsTxtChecker asked about URLs of two origins whose    *)
(* robots.txt retrieval can end in every way.                              *)
(***************************************************************************)
Urls == {[origin |-> o, rest |-> r] : o \in Origins, r \in Paths}

InitRobots ==
    /\ ModuleInit
    /\ user_agent_file = UserAgentFile
    /\ robots_txt = [o \in Origins |-> Retrievals]
    /\ proxy_file = MissingFile
    /\ config = DefaultConfig
    /\ pc = [t \in Threads |-> IF t = 1 THEN "idle" ELSE "off"]
    /\ loc = [t \in Threads |-> LocInit]

\* A caller invokes RobotsTxtChecker(config.user_agent).can_fetch(url).
CallCanFetch(t) ==
    /\ pc[t] = "idle"
    /\ \E u \in Urls : Goto(t, "cf_enter", EnterCanFetch(loc[t], u, "returned"))
    /\ UNCHANGED <<poolVars, robotsVars, config, job_status, now, robots_txt, uaVars, histVars>>

NextRobots == \E t \in Threads : CallCanFetch(t) \/ CanFetch(t) \/ CallerContinues(t)

SpecRobots == InitRobots /\ [][NextRobots]_vars

(***************************************************************************)
(* SpecCache: threads that ask can_fetch and the derived facts about URLs  *)
(* of two origins while time passes.  Thread 1 makes call after call of    *)
(* any of the functions, the other threads ask can_fetch once each.        *)
(***************************************************************************)
CacheUrls == {[origin |-> o, rest |-> <<"/", "a">>] : o \in Origins}

\* robots.txt of the origins: served with "Disallow: /a", answered with a
\* server error, or unreachable.
CacheRetrievals == {<<"served", <<"/", "a">>>>, <<"http_500", <<>>>>,
                    <<"unreachable", <<>>>>}

InitCache ==
    /\ ModuleInit
    /\ user_agent_file = UserAgentFile
    /\ robots_txt = [o \in Origins |-> CacheRetrievals]
    /\ proxy_file = MissingFile
    /\ config = DefaultConfig
    /\ pc = [t \in Threads |-> "idle"]
    /\ loc = [t \in Threads |-> LocInit]

CallCanFetchCached(t) ==
    /\ pc[t] = "idle"
    /\ \E u \in CacheUrls : Goto(t, "cf_enter", EnterCanFetch(loc[t], u, "returned"))
    /\ UNCHANGED <<poolVars, robotsVars, config, job_status, now, robots_txt, uaVars, histVars>>

CallDerivedFact(t) == \E u \in CacheUrls, f \in DerivedFacts : DerivedFact(t, f, u)

\* time.time() moves on.
Tick ==
    /\ now < MaxTime
    /\ now' = now + 1
    /\ UNCHANGED <<poolVars, robotsVars, config, job_status, pc, loc, robots_txt, uaVars,
                   histVars>>

NextCache ==
    \/ Tick
    \/ \E t \in Threads :
           \/ CallCanFetchCached(t)
           \/ (t = 1 /\ CallDerivedFact(t))
           \/ CanFetch(t)
           \/ (t = 1 /\ CallerContinues(t))

SpecCache == InitCache /\ [][NextCache]_vars

(***************************************************************************)
(* SpecEvict: can_fetch on a cache that is one short of                    *)
(* _robots_parsers_max_cache_size or at it, at times around                *)
(* _robots_parsers_cache_ttl.  The process has cached origins 1, 2, ...    *)
(* one after the other: the first few in second 0, the next few in second  *)
(* 1, every later origin o in second 2 + o.                                *)
(***************************************************************************)
EvictOrigins == 1 .. (robots_parsers_max_cache_size + NumUrls - 2)

\* The origins can_fetch is asked about: the oldest of the cache, the one
\* cached last when the cache is full, and the ones never cached.
EvictCallOrigins ==
    {1} \cup {o \in EvictOrigins : o >= robots_parsers_max_cache_size}

EvictServed == ParserAfterRead("served", <<"/", "a">>)

InitEvict ==
    /\ proxies_cache = NoList
    /\ lists = <<>>
    /\ proxies_lock = NoThread
    /\ current_proxy_index = 0
    /\ user_agents_cache = <<>>
    /\ robots_parsers_lock = NoThread
    /\ picks = <<>>
    /\ events = <<>>
    /\ outcomes = <<>>
    /\ last_request = [o \in Origins |-> -1]
    /\ job_status = "Pending"
    /\ user_agent_file = UserAgentFile
    /\ proxy_file = MissingFile
    /\ config = DefaultConfig
    /\ now = robots_parsers_cache_ttl
    /\ robots_txt = [o \in EvictOrigins |-> {<<"served", <<"/", "a">>>>}]
    /\ \E n \in {robots_parsers_max_cache_size - 1, robots_parsers_max_cache_size},
          a \in 0 .. 2, b \in 0 .. 1 :
          /\ robots_parsers = [o \in 1 .. n |-> EvictServed]
          /\ robots_parsers_last_used =
                 [o \in 1 .. n |-> IF o <= a THEN 0
                                   ELSE IF o <= a + b THEN 1 ELSE 2 + o]
    /\ pc = [t \in Threads |-> IF t = 1 THEN "idle" ELSE "off"]
    /\ loc = [t \in Threads |-> LocInit]

CallCanFetchEvict(t) ==
    /\ pc[t] = "idle"
    /\ \E o \in EvictCallOrigins :
         Goto(t, "cf_enter",
              EnterCanFetch(loc[t], [origin |-> o, rest |-> <<"/", "a">>], "returned"))
    /\ UNCHANGED <<poolVars, robotsVars, config, job_status, now, robots_txt, uaVars, histVars>>

\* time.time() moves on, past the TTL of the entries of seconds 0 and 1.
TickEvict ==
    /\ now < robots_parsers_cache_ttl + MaxTime
    /\ now' = now + 1
    /\ UNCHANGED <<poolVars, robotsVars, config, job_status, pc, loc, robots_txt, uaVars,
                   histVars>>

NextEvict ==
    \/ TickEvict
    \/ \E t \in Threads : CallCanFetchEvict(t) \/ CanFetch(t) \/ CallerContinues(t)

SpecEvict == InitEvict /\ [][NextEvict]_vars

(***************************************************************************)
(* SpecExtract: engine.scrape on a page it has fetched and parsed, for     *)
(* every document and schema of the sets below.                            *)
(***************************************************************************)
SeqsUpTo(S, n) == UNION {[1 .. k -> S] : k \in 0 .. n}

\* Elements: "xy" in two strings and no href; "x  x" with href "u"; blank
\* text with an empty href.
ExtractElements ==
    { [strings |-> << <<" ", "x">>, <<"y", " ">> >>, attrs |-> [a \in {} |-> <<>>]],
      [strings |-> << <<"x", " ", " ", "x">> >>,     attrs |-> [a \in {"href"} |-> <<"u">>]],
      [strings |-> << <<" ">> >>,                    attrs |-> [a \in {"href"} |-> <<>>]] }

\* Documents: "h1" matches up to MaxNodes elements, "h2" matches nothing.
ExtractDocs ==
    {[sel \in {"h1"} |-> elements] : elements \in SeqsUpTo(ExtractElements, MaxNodes)}

ProcessorNames == {"first", "exclaim", "or_none", "no_y"}

FieldSpecs ==
    {Plain(sel) : sel \in {"h1", "h2"}}
        \cup {Structured(sel, a, m, ps) :
                 sel \in {"", "h1", "h2"}, a \in {"", "href"}, m \in BOOLEAN,
                 ps \in SeqsUpTo(ProcessorNames, MaxProcessors)}

OtherFieldSpecs ==
    {Plain("h1"), Plain("h2"), Structured("h2", "", TRUE, <<>>),
     Structured("h1", "href", TRUE, <<>>)}

\* Schemas of two fields: "a" with any field schema, "b" with one of a few.
ExtractSchemas ==
    {[f \in {"a", "b"} |-> IF f = "a" THEN x ELSE y] :
        x \in FieldSpecs, y \in OtherFieldSpecs}

InitExtract ==
    /\ ModuleInit
    /\ user_agent_file = UserAgentFile
    /\ robots_txt = [o \in Origins |-> Retrievals]
    /\ proxy_file = MissingFile
    /\ config = DefaultConfig
    /\ pc = [t \in Threads |-> IF t = 1 THEN "en_parsed" ELSE "off"]
    /\ \E doc \in ExtractDocs, schema \in ExtractSchemas :
           loc = [t \in Threads |->
                     IF t = 1
                     THEN [LocInit EXCEPT !.ret = "returned", !.soup = doc,
                                          !.schema = schema]
                     ELSE LocInit]

\* engine.scrape, lines 175-181: _extract_data on the parsed page; what it
\* raises is caught and {} returned.
EngineScrapeParsed(t) ==
    /\ pc[t] = "en_parsed"
    /\ Return(t, [loc[t] EXCEPT
                     !.raised = ExtractData(loc[t].soup, loc[t].schema).raised,
                     !.result = [fields |-> ScrapeParsed(loc[t].soup, loc[t].schema),
                                 url    |-> NoUrl]])
    /\ UNCHANGED <<poolVars, robotsVars, config, job_status, now, robots_txt, uaVars, histVars>>

NextExtract == \E t \in Threads : EngineScrapeParsed(t)

SpecExtract == InitExtract /\ [][NextExtract]_vars

(***************************************************************************)
(* SpecCsv: CSVExporter.export on every input of the sets below.           *)
(***************************************************************************)
CsvKeys == {<<"a">>, <<"b">>}

\* None, a str with a quotechar, a list and a dict.
CsvValues ==
    {Null, Scalar(<<"\"", "x">>), Many(<<Scalar(<<"x">>), Null>>),
     Mapping(<< <<<<"a">>, Scalar(<<"x">>)>> >>)}

\* Records: every order of every subset of the keys, with every value.
CsvRecords ==
    {item \in SeqsUpTo(CsvKeys \X CsvValues, Cardinality(CsvKeys)) :
        NoDuplicates(KeysOf(item))}

\* A single dict, or a list of up to MaxRecords dicts.
CsvInputs ==
    {[is_dict |-> TRUE, items |-> <<item>>] : item \in CsvRecords}
        \cup {[is_dict |-> FALSE, items |-> items] :
                 items \in SeqsUpTo(CsvRecords, MaxRecords)}

InitCsv ==
    /\ ModuleInit
    /\ user_agent_file = UserAgentFile
    /\ robots_txt = [o \in Origins |-> Retrievals]
    /\ proxy_file = MissingFile
    /\ config = DefaultConfig
    /\ pc = [t \in Threads |-> IF t = 1 THEN "csv_export" ELSE "off"]
    /\ \E data \in CsvInputs :
           loc = [t \in Threads |->
                     IF t = 1 THEN [LocInit EXCEPT !.ret = "returned", !.data = data]
                     ELSE LocInit]

CsvExport(t) ==
    /\ pc[t] = "csv_export"
    /\ Return(t, [loc[t] EXCEPT !.file = Export(loc[t].data)])
    /\ UNCHANGED <<poolVars, robotsVars, config, job_status, now, robots_txt, uaVars, histVars>>

NextCsv == \E t \in Threads : CsvExport(t)

SpecCsv == InitCsv /\ [][NextCsv]_vars

(***************************************************************************)
(* SpecJson: JSONExporter.export on every input of the sets below.         *)
(***************************************************************************)
\* Texts with what the encoding has to escape or must not take for syntax.
JsonTexts == {<<"x">>, <<"\\", "n", "\"">>, <<",", "]", "\n">>}

JsonScalars == {Null} \cup {Scalar(text) : text \in JsonTexts}

\* None, a str, or a list of up to MaxNodes of them.
JsonValues == JsonScalars \cup {Many(items) : items \in SeqsUpTo(JsonScalars, MaxNodes)}

\* Records: every order of every subset of the keys, with every value.
JsonRecords ==
    {item \in SeqsUpTo(CsvKeys \X JsonValues, Cardinality(CsvKeys)) :
        NoDuplicates(KeysOf(item))}

\* A single dict, or a list of up to MaxRecords of the records of the CSV
\* inputs that hold no dict.
JsonInputs ==
    {[is_dict |-> TRUE, items |-> <<item>>] : item \in JsonRecords}
        \cup {[is_dict |-> FALSE, items |-> items] :
                 items \in SeqsUpTo({ << <<<<"a">>, Null>> >>,
                                      << <<<<"b">>, Scalar(<<"\"", "x">>)>> >> },
                                    MaxRecords)}

InitJson ==
    /\ ModuleInit
    /\ user_agent_file = UserAgentFile
    /\ robots_txt = [o \in Origins |-> Retrievals]
    /\ proxy_file = MissingFile
    /\ config = DefaultConfig
    /\ pc = [t \in Threads |-> IF t = 1 THEN "json_export" ELSE "off"]
    /\ \E data \in JsonInputs :
           loc = [t \in Threads |->
                     IF t = 1 THEN [LocInit EXCEPT !.ret = "returned", !.data = data]
                     ELSE LocInit]

JsonExport(t) ==
    /\ pc[t] = "json_export"
    /\ Return(t, [loc[t] EXCEPT !.file = JsonExportFile(loc[t].data)])
    /\ UNCHANGED <<poolVars, robotsVars, config, job_status, now, robots_txt, uaVars, histVars>>

NextJson == \E t \in Threads : JsonExport(t)

SpecJson == InitJson /\ [][NextJson]_vars

(***************************************************************************)
(* scraper.py, engines/__init__.py, exporters/__init__.py: constructing a  *)
(* Scraper and exporting with it.                                          *)
(***************************************************************************)
\* The names under which the engine modules that get_engine imports register.
RegisteredEngines == {"requests", "bs4", "selenium", "playwright", "scrapy"}

\* The names under which the exporter modules that get_exporter imports
\* register.
RegisteredExporters == {"json", "csv", "excel", "sqlite"}

\* get_engine, line 87: `name in _engines`.
EngineFound(name) == name \in RegisteredEngines

\* str.lower() on the names of the model.
Lower(name) ==
    CASE name = "CSV"  -> "csv"
      [] name = "JSON" -> "json"
      [] OTHER         -> name

\* get_exporter, lines 66-81: the exporter name a format or extension means.
ExporterNameOf(name) ==
    LET lower == Lower(name)
    IN CASE lower \in {"xlsx", "xls"}             -> "excel"
         [] lower \in {"db", "sqlite", "sqlite3"} -> "sqlite"
         [] OTHER                                 -> lower

\* get_exporter, line 83, with every name found.
ExporterFoundAlways(name) == TRUE

\* get_exporter, line 83: `name in _exporters`.
ExporterFound(name) == name \in RegisteredExporters

\* export, lines 138-140: the format, from the extension when none is given
\* ("" stands for None and for no extension).
FormatOf(format, ext) == IF format = "" THEN (IF ext # "" THEN ext ELSE "json") ELSE format

\* What a known exporter writes for the data.
Written(name, data) ==
    CASE name = "json" -> JsonExportFile(data)
      [] name = "csv"  -> Export(data)
      [] OTHER         -> <<name>>

\* Scraper.__init__, lines 46-53: the config is taken as it is, its engine
\* option is set to the engine argument when that differs, and get_engine
\* raises for a name that is not registered.
ScraperInit(t) ==
    /\ pc[t] = "sc_new"
    /\ \E engine \in {"", "requests", "selenium", "nope"} :
         LET cfg == IF engine # "" /\ engine # config.engine
                    THEN [config EXCEPT !.engine = engine]
                    ELSE config
         IN /\ config' = cfg
            /\ IF EngineFound(cfg.engine)
               THEN Goto(t, "sc_ready", [loc[t] EXCEPT !.fn = "Scraper", !.arg_s = engine])
               ELSE Goto(t, "returned", [loc[t] EXCEPT !.fn = "Scraper", !.arg_s = engine,
                                                       !.raised = TRUE])
    /\ UNCHANGED <<poolVars, robotsVars, job_status, now, robots_txt, uaVars, histVars>>

\* Scraper.export, lines 138-154: get_exporter raises for an unknown name
\* before anything is written; what the exporter raises is caught and False
\* returned.
ScraperExport(t) ==
    /\ pc[t] = "sc_ready"
    /\ \E format \in {"", "json", "CSV", "xlsx", "yaml"}, ext \in {"", "csv", "txt"},
          data \in {[is_dict |-> TRUE, items |-> << << <<<<"a">>, Null>> >> >>],
                    [is_dict |-> FALSE, items |-> <<>>]},
          io \in {"written", "fails"} :
         LET name == ExporterNameOf(FormatOf(format, ext))
             l == [loc[t] EXCEPT !.fn = "export", !.arg_s = name, !.data = data,
                                 !.file = <<>>, !.exported = "none", !.raised = FALSE]
         IN IF ~ExporterFound(name)
            THEN Goto(t, "sc_ready", [l EXCEPT !.raised = TRUE])
            ELSE IF io = "fails"
            THEN Goto(t, "sc_ready", [l EXCEPT !.exported = "False"])
            ELSE Goto(t, "sc_ready", [l EXCEPT !.exported = "True",
                                               !.file = Written(name, data)])
    /\ UNCHANGED <<poolVars, robotsVars, config, job_status, now, robots_txt, uaVars, histVars>>

\* Scraper.close, lines 160-162.
ScraperClose(t) ==
    /\ pc[t] = "sc_ready"
    /\ Goto(t, "returned", [loc[t] EXCEPT !.fn = "close"])
    /\ UNCHANGED <<poolVars, robotsVars, config, job_status, now, robots_txt, uaVars, histVars>>

(***************************************************************************)
(* SpecScraper: a caller constructs a config, then a Scraper with it, then *)
(* exports any number of times and closes.                                 *)
(***************************************************************************)
ScraperConfigs ==
    {[DefaultConfig EXCEPT !.engine = e, !.respect_robots_txt = r] :
        e \in {"requests", "selenium", "nope"}, r \in BOOLEAN}

InitScraper ==
    /\ ModuleInit
    /\ user_agent_file = UserAgentFile
    /\ robots_txt = [o \in Origins |-> Retrievals]
    /\ proxy_file = MissingFile
    /\ config \in ScraperConfigs
    /\ pc = [t \in Threads |-> IF t = 1 THEN "sc_new" ELSE "off"]
    /\ loc = [t \in Threads |-> [LocInit EXCEPT !.given = config]]

NextScraper == \E t \in Threads : ScraperInit(t) \/ ScraperExport(t) \/ ScraperClose(t)

SpecScraper == InitScraper /\ [][NextScraper]_vars

(***************************************************************************)
(* SpecDefaults: _fetch_page with proxies enabled, under every rotation    *)
(* policy, on a proxy file and a user agent file that are missing, empty   *)
(* or of one line.                                                         *)
(***************************************************************************)
DefaultsFiles == {MissingFile, ProxyFileOf(0), ProxyFileOf(1)}

InitDefaults ==
    /\ ModuleInit
    /\ robots_txt = [o \in Origins |-> Retrievals]
    /\ user_agent_file \in DefaultsFiles
    /\ proxy_file \in DefaultsFiles
    /\ config \in {[DefaultConfig EXCEPT !.use_proxies = TRUE,
                                         !.proxy_rotation_policy = p,
                                         !.user_agent_rotation = r] :
                      p \in Policies, r \in BOOLEAN}
    /\ pc = [t \in Threads |-> IF t = 1 THEN "fp_attempt" ELSE "off"]
    /\ loc = [t \in Threads |-> [LocInit EXCEPT !.url = JobUrl(1), !.url_i = 1]]

NextDefaults ==
    \E t \in Threads : FetchPageAttempt(t) \/ GetProxy(t) \/ FetchPageRequest(t)

SpecDefaults == InitDefaults /\ [][NextDefaults]_vars

(***************************************************************************)
(* Spec: one Scraper, constructed with any of the modelled configurations, *)
(* runs a job of NumUrls URLs through scrape_multiple.                     *)
(***************************************************************************)
Delays == {0, WaitFixed, WaitFixed + 1}

\* The modelled configurations.  The job rotates round-robin; the other
\* policies are exercised in SpecPool.
Configs ==
    [ engine                : {"requests"},
      max_retries           : 1 .. MaxRetriesConfig,
      request_delay         : Delays,
      use_proxies           : BOOLEAN,
      proxy_rotation_policy : {"round-robin"},
      user_agent_rotation   : BOOLEAN,
      respect_robots_txt    : BOOLEAN ]

\* robots.txt of the job's origins: served with "Disallow: /a", or unreachable.
JobRetrievals == {<<"served", <<"/", "a">>>>, <<"unreachable", <<>>>>}

Init ==
    /\ ModuleInit
    /\ user_agent_file = UserAgentFile
    /\ robots_txt = [o \in Origins |-> JobRetrievals]
    /\ proxy_file = ProxyFileOf(PoolSize)
    /\ config \in Configs
    /\ pc = [t \in Threads |-> IF t = 1 THEN "idle" ELSE "off"]
    /\ loc = [t \in Threads |-> LocInit]

Next == \E t \in Threads :
            \/ JobStart(t)
            \/ ScrapeMultipleLoop(t)
            \/ Scrape(t)
            \/ CanFetch(t)
            \/ GetProxy(t)
            \/ ScrapeMultipleCollect(t)
            \/ JobFinish(t)

Spec == Init /\ [][Next]_vars

(***************************************************************************)
(* Properties.                                                             *)
(***************************************************************************)
\* The entries of a scrape() history that are network requests.
Requests(evs) == SelectSeq(evs, LAMBDA ev : ev.e = "request")

\* The positions of the job's URLs that ended with the given outcome.
UrlsThat(outs, how) ==
    SelectSeq([i \in 1 .. Len(outs) |-> i], LAMBDA i : outs[i] = how)

\* The labels of scrape() past the robots.txt gate.
PastGate == {"sc_delay", "fp_attempt", "gp_load", "gp_lock", "gp_pick",
             "gp_advance", "fp_request", "en_extract"}

\* The pool the cached list holds.
Pool == ListOf(proxies_cache)

----------------------------------------------------------------------------
\* C1: _fetch_page attempts until the first success or until exactly
\* config.max_retries attempts have failed: the attempt count of a URL never
\* exceeds max_retries, and a URL is given up after exactly max_retries
\* failed attempts.
C1_AttemptsFollowMaxRetries ==
    \A t \in Threads :
        /\ loc[t].attempt <= config.max_retries
        /\ (pc[t] = "sm_collect" /\ Last(outcomes) = "failed")
               => loc[t].attempt = config.max_retries

----------------------------------------------------------------------------
\* C2: with use_proxies and round-robin, every request of one URL is
\* immediately preceded by its proxy selection, which reads the cursor as the
\* attempt found it; the k-th request of the URL uses the k-th pool entry
\* after the cursor position the URL started with (modulo the pool size), and
\* between attempts the cursor has advanced by exactly one per attempt.
C2_AttemptsUseConsecutiveProxies ==
    config.use_proxies =>
        LET first == events[1].a
            reqs == Requests(events)
        IN /\ \A i \in DOMAIN events :
                  events[i].e = "request" =>
                      /\ i > 1
                      /\ events[i - 1].e = "select"
                      /\ events[i].a = Pool[events[i - 1].a + 1]
           /\ \A k \in DOMAIN reqs :
                  reqs[k].a = Pool[((first + k - 1) % Len(Pool)) + 1]
           /\ \A t \in Threads :
                  pc[t] \in {"fp_attempt", "en_extract", "sm_collect"} =>
                      current_proxy_index = (first + Len(reqs)) % PoolSize

\* C2's case: one URL whose three attempts all sent a request through a proxy.
C2_Witness ==
    /\ config.use_proxies
    /\ Len(Requests(events)) = StopAfterAttempt
    /\ \E t \in Threads : pc[t] = "sm_collect"

----------------------------------------------------------------------------
\* C3: on an unmutated pool of N entries the latest N round-robin selections,
\* whichever threads made them, are N different entries of the pool; the
\* cursor is one past the latest selection once its increment is done, so no
\* cursor value is read twice and no increment is lost.
C3_RoundRobinWindowIsPermutation ==
    picks # <<>> =>
        /\ Len(picks) <= Len(Pool)
        /\ NoDuplicates(picks)
        /\ Range(picks) \subseteq Range(Pool)
        /\ Cardinality({t \in Threads : pc[t] = "gp_advance"}) <= 1
        /\ current_proxy_index =
               IF \E t \in Threads : pc[t] = "gp_advance"
               THEN Last(picks) - 1
               ELSE Last(picks) % Len(Pool)

\* C3's case: a full window of selections on the largest pool while one thread
\* is between its read of the cursor and its increment and another waits for
\* the lock.
C3_Witness ==
    /\ PoolSize > 1
    /\ Len(Pool) = PoolSize
    /\ Len(picks) = PoolSize
    /\ Range(picks) = Range(Pool)
    /\ \E t, u \in Threads : pc[t] = "gp_advance" /\ pc[u] = "gp_lock"

----------------------------------------------------------------------------
\* C4: given a retrieved robots.txt that disallows a path prefix, can_fetch
\* answers false exactly for the URLs of the origin whose path (an empty path
\* read as "/") starts with the prefix.
C4_GateFollowsDisallowedPrefix ==
    \A t \in Threads :
        (/\ pc[t] = "returned"
         /\ loc[t].parser.kind = "parsed"
         /\ loc[t].parser.rule # <<>>)
            => LET path == IF loc[t].url.rest = <<>> THEN <<"/">>
                           ELSE loc[t].url.rest
               IN loc[t].allowed = ~StartsWith(path, loc[t].parser.rule)

----------------------------------------------------------------------------
\* C5: when robots.txt of an origin cannot be retrieved (unreachable host,
\* undecodable body, server error), can_fetch returns true, at the retrieval
\* and at every later call for the origin.
C5_GateFailsOpen ==
    \A t \in Threads :
        (/\ pc[t] = "returned"
         /\ \/ loc[t].read \in ReadRaises \cup {"http_500"}
            \/ loc[t].parser.kind = "unread")
            => loc[t].allowed /\ ~loc[t].raised

----------------------------------------------------------------------------
\* C6: a URL for which can_fetch answered false never gets past the gate of
\* scrape(): the call ends with an empty result, and between its start and
\* its end nothing but the robots.txt check happened: no delay (the clock
\* has not moved), no user-agent rotation, no proxy selection (the cursor has
\* not moved) and no request.
C6_DeniedUrlIsSkipped ==
    \A t \in Threads :
        ~loc[t].allowed =>
            /\ pc[t] \notin PastGate
            /\ pc[t] = "sm_collect" =>
                   /\ loc[t].result = EmptyRecord
                   /\ loc[t].attempt = 0
                   /\ events = <<Event("start", current_proxy_index, now),
                                 Event("robots", 0, 0)>>

\* C6's case: a denied URL has been skipped by a scraper that has a delay,
\* proxies and user-agent rotation configured.
C6_Witness ==
    /\ config.respect_robots_txt
    /\ config.use_proxies
    /\ config.user_agent_rotation
    /\ config.request_delay > 0
    /\ \E t \in Threads : pc[t] = "sm_collect" /\ ~loc[t].allowed

----------------------------------------------------------------------------
----------------------------------------------------------------------------
\* The job's terminal status against what happened to its URLs.
JobStatusMatchesRecords ==
    job_status \in TerminalStatuses =>
        LET n == Len(UrlsThat(outcomes, "fetched"))
        IN /\ Len(outcomes) = NumUrls
           /\ job_status = "Succeeded" <=> n = NumUrls
           /\ job_status = "Failed" <=> n = 0
           /\ job_status = "PartiallyFailed" <=> (0 < n /\ n < NumUrls)

\* The changes of status a job can make.
JobStatusStep ==
    job_status' # job_status =>
        \/ job_status = "Pending" /\ job_status' = "Running"
        \/ job_status = "Running" /\ job_status' \in TerminalStatuses

----------------------------------------------------------------------------
\* C9: every request is sent at least request_delay after the previous
\* request to the same origin.
C9_RequestsToOriginAreSpaced ==
    \A i \in DOMAIN events :
        (events[i].e = "request" /\ events[i].b # -1)
            => events[i].b >= config.request_delay

----------------------------------------------------------------------------
\* C10: the history of one scrape() is the robots.txt check (when enabled),
\* then one delay of request_delay (when it is positive), then the attempts:
\* the delay comes before the first attempt and is not repeated before a
\* retry.
C10_OneDelayBeforeFirstAttempt ==
    LET gate == IF config.respect_robots_txt THEN 1 ELSE 0
        delay == IF config.request_delay > 0 THEN 1 ELSE 0
    IN \A i \in DOMAIN events :
           /\ events[i].e = "robots" => i = 2
           /\ events[i].e = "delay" =>
                  /\ delay = 1
                  /\ i = 2 + gate
                  /\ events[i].a = config.request_delay
           /\ events[i].e \in {"ua", "select", "request", "wait"} =>
                  /\ i > 1 + gate + delay
                  /\ gate = 1 => events[2].e = "robots"
                  /\ delay = 1 => events[2 + gate].e = "delay"

\* C10's case: an allowed URL, with the gate and a delay configured, whose
\* first attempt failed and was retried.
C10_Witness ==
    /\ config.respect_robots_txt
    /\ config.request_delay > 0
    /\ Len(Requests(events)) >= 2
    /\ \E t \in Threads : loc[t].allowed /\ pc[t] = "en_extract"

----------------------------------------------------------------------------
\* The labels of add_proxy and of remove_proxy.
MutatorLabels == {"ap_load", "ap_check", "ap_write", "ap_lock", "ap_append",
                  "rp_load", "rp_check", "rp_remove", "rp_write", "rp_lock", "rp_set"}

\* C11: a step of add_proxy or remove_proxy that changes the backing file or
\* the cached pool changes both, and is taken with the pool lock held, so
\* that a concurrent get_proxy sees the pool before the mutation or after it.
C11_MutationIsAtomic ==
    [][\A t \in Threads :
          (/\ pc[t] \in MutatorLabels
           /\ pc'[t] # pc[t]
           /\ proxies_cache # NoList
           /\ (proxy_file' # proxy_file \/ Pool' # Pool))
              => /\ proxies_lock = t
                 /\ proxy_file' # proxy_file
                 /\ Pool' # Pool]_vars

----------------------------------------------------------------------------
\* The pool the next _load_proxies returns: the cached list, or the file.
EffectivePool == IF proxies_cache # NoList THEN Pool ELSE proxy_file.lines

\* The entries of s at the positions where keep holds.
Kept(s, keep) ==
    LET at == SelectSeq([i \in 1 .. Len(s) |-> i], LAMBDA i : keep[i] = "200")
    IN [k \in DOMAIN at |-> s[at[k]]]

\* A completed refresh_proxies leaves the probed entries that answered 200.
RefreshKeepsTheWorking ==
    \A t \in Threads :
        (pc[t] = "returned" /\ loc[t].before # <<>>)
            => /\ Len(loc[t].probes) = Len(loc[t].before)
               /\ Pool = Kept(loc[t].before, loc[t].probes)

\* A step of get_proxy, of add_proxy, or of remove_proxy of another entry
\* keeps every entry of the pool.
OthersNeverShrink ==
    \A t \in Threads :
        (/\ pc[t] \in MutatorLabels \cup {"gp_load", "gp_lock", "gp_pick", "gp_advance"}
         /\ pc'[t] # pc[t])
            => \A x \in Range(EffectivePool) :
                   \/ x \in Range(EffectivePool')
                   \/ pc[t] \in {"rp_remove", "rp_write", "rp_lock", "rp_set"}
                          /\ x = loc[t].arg

----------------------------------------------------------------------------
\* robots.txt of an origin is being retrieved only while the origin has no
\* cache entry.
CachedOriginIsNotRetrieved ==
    \A t \in Threads :
        pc[t] = "cf_read" => loc[t].url.origin \notin DOMAIN robots_parsers

\* A can_fetch that finds the origin cached returns without a retrieval, with
\* the cached parser, leaves the cached parsers as they are and sets the
\* origin's last-used time to the current time.
HitReusesParser ==
    \A t \in Threads :
        LET o == loc[t].url.origin
        IN (/\ pc[t] = "cf_enter"
            /\ pc'[t] # pc[t]
            /\ o \in DOMAIN robots_parsers)
               => /\ pc'[t] = loc[t].ret
                  /\ loc'[t].read = "none"
                  /\ loc'[t].parser = robots_parsers[o]
                  /\ robots_parsers' = robots_parsers
                  /\ robots_parsers_last_used' =
                         [robots_parsers_last_used EXCEPT ![o] = now]

\* C13: robots.txt of an origin is retrieved only when the origin has no
\* cache entry; a can_fetch for a cached origin reuses the cached parser,
\* retrieves nothing and updates the entry's last-used time.
C13_CachedParserIsReused ==
    [](CachedOriginIsNotRetrieved) /\ [][HitReusesParser]_vars

\* C13's case: a can_fetch answered from an entry cached earlier, whose
\* last-used time it has moved forward.
C13_Witness ==
    \E t \in Threads :
        /\ pc[t] = "returned"
        /\ loc[t].fn = "none"
        /\ loc[t].read = "none"
        /\ loc[t].parser.kind = "parsed"
        /\ ~loc[t].allowed
        /\ robots_parsers_last_used[loc[t].url.origin] = MaxTime

----------------------------------------------------------------------------
\* C14: get_crawl_delay, get_request_rate and get_sitemaps retrieve nothing
\* when the origin is cached, and a retrieval they make is cached.
C14_DerivedFactsUseTheCache ==
    \A t \in Threads :
        (pc[t] = "returned" /\ loc[t].fn \in DerivedFacts)
            => LET o == loc[t].url.origin
               IN /\ o \in DOMAIN robots_parsers => loc[t].read = "none"
                  /\ loc[t].read \notin ReadRaises \cup {"none"}
                         => o \in DOMAIN robots_parsers

----------------------------------------------------------------------------
\* engine.scrape has returned for thread t, and _extract_data did not raise.
Extracted(t) == pc[t] = "returned" /\ DOMAIN loc[t].schema # {} /\ ~loc[t].raised

\* C15: when every field of the schema has a selector and that selector
\* matches no element, the record has every field of the schema: the empty
\* list for a dict field with multiple, None for every other field.
C15_NoMatchGivesNullOrEmpty ==
    \A t \in Threads :
        LET schema == loc[t].schema
            fields == loc[t].result.fields
        IN (/\ pc[t] = "returned"
            /\ DOMAIN schema # {}
            /\ \A f \in DOMAIN schema :
                   /\ schema[f].selector # ""
                   /\ Select(loc[t].soup, schema[f].selector) = <<>>)
               => /\ DOMAIN fields = DOMAIN schema
                  /\ \A f \in DOMAIN schema :
                         fields[f] = IF schema[f].type = "dict" /\ schema[f].multiple
                                     THEN Many(<<>>)
                                     ELSE Null

\* C15's case: a document with elements, a dict field with multiple and a
\* plain field, both with a selector that matches nothing.
C15_Witness ==
    \E t \in Threads :
        /\ pc[t] = "returned"
        /\ DOMAIN loc[t].schema = {"a", "b"}
        /\ loc[t].soup["h1"] # <<>>
        /\ loc[t].schema["a"].type = "dict"
        /\ loc[t].schema["a"].multiple
        /\ loc[t].schema["a"].selector = "h2"
        /\ loc[t].schema["b"] = Plain("h2")
        /\ loc[t].result.fields["a"] = Many(<<>>)
        /\ loc[t].result.fields["b"] = Null

----------------------------------------------------------------------------
\* C16: a plain-selector field is None when its selector matches nothing, the
\* text of the element when it matches one, and the list of the elements'
\* texts in document order when it matches several.
C16_PlainFieldFollowsMatchCount ==
    \A t \in Threads :
        Extracted(t) =>
            \A f \in DOMAIN loc[t].schema :
                loc[t].schema[f].type = "str" =>
                    LET elements == Select(loc[t].soup, loc[t].schema[f].selector)
                        value == loc[t].result.fields[f]
                    IN CASE Len(elements) = 0 -> value = Null
                         [] Len(elements) = 1 ->
                                /\ value.kind = "scalar"
                                /\ value.text = GetTextStrip(elements[1])
                         [] OTHER ->
                                /\ value.kind = "list"
                                /\ Len(value.items) = Len(elements)
                                /\ \A i \in DOMAIN elements :
                                       value.items[i] = Scalar(GetTextStrip(elements[i]))

\* C16's case: a plain field whose selector matched several elements with
\* different texts.
C16_Witness ==
    \E t \in Threads :
        /\ Extracted(t)
        /\ loc[t].schema["b"] = Plain("h1")
        /\ Len(loc[t].soup["h1"]) > 1
        /\ loc[t].result.fields["b"].kind = "list"
        /\ loc[t].result.fields["b"].items[1] # loc[t].result.fields["b"].items[2]

----------------------------------------------------------------------------
RECURSIVE ValueAfter(_, _, _)
\* The value of an element once the first k processors of the field have been
\* applied: the attribute or the text, then processor after processor, a None
\* staying None.
ValueAfter(element, field_schema, k) ==
    IF k = 0
    THEN IF field_schema.attribute = "" THEN Scalar(GetTextStrip(element))
         ELSE IF field_schema.attribute \in DOMAIN element.attrs
              THEN Scalar(element.attrs[field_schema.attribute])
              ELSE Null
    ELSE LET before == ValueAfter(element, field_schema, k - 1)
         IN IF before = Null THEN Null
            ELSE Process(field_schema.processors[k], before.text).value

\* C17: a dict field whose selector matches: every element yields its
\* attribute (None when it has none) or its text, run through the processors
\* in order with the rest skipped once the value is None; the field is the
\* first element's value, or with multiple the list of all of them in document
\* order, None included.
C17_StructuredFieldValue ==
    \A t \in Threads :
        Extracted(t) =>
            \A f \in DOMAIN loc[t].schema :
                LET field_schema == loc[t].schema[f]
                    elements == Select(loc[t].soup, field_schema.selector)
                    n == Len(field_schema.processors)
                    value == loc[t].result.fields[f]
                IN (field_schema.type = "dict" /\ elements # <<>>)
                       => IF field_schema.multiple
                          THEN /\ value.kind = "list"
                               /\ value.items =
                                      [i \in DOMAIN elements |->
                                          ValueAfter(elements[i], field_schema, n)]
                          ELSE value = ValueAfter(elements[1], field_schema, n)

\* C17's case: a dict field with multiple, an attribute and two processors
\* that do not commute, on elements of which the first lacks the attribute
\* and the second has it.
C17_Witness ==
    \E t \in Threads :
        /\ Extracted(t)
        /\ loc[t].schema["a"].type = "dict"
        /\ loc[t].schema["a"].selector = "h1"
        /\ loc[t].schema["a"].multiple
        /\ loc[t].schema["a"].attribute = "href"
        /\ loc[t].schema["a"].processors = <<"exclaim", "first">>
        /\ Len(loc[t].soup["h1"]) > 1
        /\ loc[t].result.fields["a"].items[1] = Null
        /\ loc[t].result.fields["a"].items[2] = Scalar(<<"u">>)

----------------------------------------------------------------------------
\* C18: when a processor raises on an element, the record still has every
\* field that has a selector, and every field in which nothing raised has the
\* value it has without the raise.
C18_RaisingProcessorIsIsolated ==
    \A t \in Threads :
        LET schema == loc[t].schema
            fields == loc[t].result.fields
        IN (pc[t] = "returned" /\ DOMAIN schema # {} /\ loc[t].raised)
               => /\ DOMAIN fields = {f \in DOMAIN schema : schema[f].selector # ""}
                  /\ \A f \in DOMAIN schema :
                         ExtractField(loc[t].soup, schema[f]).end = "set"
                             => fields[f] = ExtractField(loc[t].soup, schema[f]).value

----------------------------------------------------------------------------
\* No whitespace at either end of the text and no two whitespace characters
\* in a row.
Clean(text) ==
    \/ text = <<>>
    \/ /\ Head(text) # " "
       /\ Last(text) # " "
       /\ \A i \in 1 .. Len(text) - 1 : ~(text[i] = " " /\ text[i + 1] = " ")

\* The texts a value holds.
TextsOf(value) ==
    CASE value.kind = "scalar" -> {value.text}
      [] value.kind = "list"   -> {value.items[i].text : i \in DOMAIN value.items}
      [] OTHER                 -> {}

\* C19: every text that extraction takes from an element (plain fields, dict
\* fields without attribute) has no whitespace at its ends and single spaces
\* for the whitespace runs inside it.
C19_ExtractedTextIsNormalised ==
    \A t \in Threads :
        Extracted(t) =>
            \A f \in DOMAIN loc[t].result.fields :
                (\/ loc[t].schema[f].type = "str"
                 \/ (loc[t].schema[f].attribute = "" /\ loc[t].schema[f].processors = <<>>))
                    => \A text \in TextsOf(loc[t].result.fields[f]) : Clean(text)

----------------------------------------------------------------------------
RECURSIVE Undouble(_)
\* A quoted field's content as a CSV reader takes it: two quotechars are one.
Undouble(text) ==
    IF Len(text) < 2 THEN text
    ELSE IF text[1] = "\"" /\ text[2] = "\"" THEN <<"\"">> \o Undouble(Tail(Tail(text)))
    ELSE <<Head(text)>> \o Undouble(Tail(text))

\* The content of a written field as a CSV reader takes it.
ReadField(field) ==
    IF field # <<>> /\ Head(field) = "\""
    THEN Undouble(SubSeq(field, 2, Len(field) - 1))
    ELSE field

RECURSIVE KeyStream(_)
\* The keys of the records, one record after the other.
KeyStream(items) ==
    IF items = <<>> THEN <<>> ELSE KeysOf(Head(items)) \o KeyStream(Tail(items))

\* Where key comes first in a sequence of keys.
FirstAt(keys, key) == SetMin({i \in DOMAIN keys : keys[i] = key})

\* C20: for a non-empty list of records, the header is the union of their
\* keys in first-seen order, there is one row per record in input order, a
\* key the record lacks is an empty column, and a list or dict value is
\* written as its str().
C20_CsvHeaderIsOrderedUnion ==
    \A t \in Threads :
        (pc[t] = "returned" /\ ~loc[t].data.is_dict /\ loc[t].data.items # <<>>)
            => LET items == loc[t].data.items
                   file == loc[t].file
                   header == [c \in DOMAIN file[1] |-> ReadField(file[1][c])]
                   stream == KeyStream(items)
               IN /\ Len(file) = 1 + Len(items)
                  /\ Range(header) = Range(stream)
                  /\ \A c, d \in DOMAIN header :
                         c < d => FirstAt(stream, header[c]) < FirstAt(stream, header[d])
                  /\ \A r \in DOMAIN items :
                         /\ Len(file[r + 1]) = Len(header)
                         /\ \A c \in DOMAIN header :
                                LET at == {i \in DOMAIN items[r] : items[r][i][1] = header[c]}
                                    cell == ReadField(file[r + 1][c])
                                IN IF at = {} THEN cell = <<>>
                                   ELSE \A i \in at :
                                            items[r][i][2].kind \in {"list", "dict"}
                                                => cell = Str(items[r][i][2])

\* C20's case: a first record with "b" only, a second with "a" before "b"
\* and a list under "a": the header is b, a and the first row's second column
\* is empty.
C20_Witness ==
    \E t \in Threads :
        /\ pc[t] = "returned"
        /\ ~loc[t].data.is_dict
        /\ Len(loc[t].data.items) > 1
        /\ KeysOf(loc[t].data.items[1]) = << <<"b">> >>
        /\ KeysOf(loc[t].data.items[2]) = << <<"a">>, <<"b">> >>
        /\ loc[t].data.items[2][1][2].kind = "list"
        /\ loc[t].file[1] = << <<"b">>, <<"a">> >>
        /\ loc[t].file[2][2] = <<>>
        /\ ReadField(loc[t].file[3][2]) = Str(loc[t].data.items[2][1][2])

----------------------------------------------------------------------------
\* What json.load makes of a text that is not JSON.
Bad == [kind |-> "bad", text |-> <<>>, items |-> <<>>]

\* A parse: the value read and the position after it.
Parsed(value, next) == [value |-> value, next |-> next]

RECURSIVE SkipSpace(_, _)
\* The first position from i on that holds no JSON whitespace.
SkipSpace(s, i) ==
    IF i <= Len(s) /\ s[i] \in {" ", "\n"} THEN SkipSpace(s, i + 1) ELSE i

RECURSIVE LoadString(_, _, _)
\* The str whose characters start at i, up to its closing quote.
LoadString(s, i, text) ==
    IF i > Len(s) THEN Parsed(Bad, i)
    ELSE IF s[i] = "\"" THEN Parsed(Scalar(text), i + 1)
    ELSE IF s[i] = "\\"
         THEN IF i + 1 > Len(s) THEN Parsed(Bad, i)
              ELSE LoadString(s, i + 2,
                              Append(text, IF s[i + 1] = "n" THEN "\n" ELSE s[i + 1]))
    ELSE LoadString(s, i + 1, Append(text, s[i]))

RECURSIVE LoadValue(_, _)
RECURSIVE LoadItems(_, _, _)
RECURSIVE LoadMembers(_, _, _)
\* The JSON value that starts at or after i.
LoadValue(s, i) ==
    LET j == SkipSpace(s, i)
    IN IF j > Len(s) THEN Parsed(Bad, j)
       ELSE CASE s[j] = "\"" -> LoadString(s, j + 1, <<>>)
              [] s[j] = "["  -> LoadItems(s, j + 1, <<>>)
              [] s[j] = "{"  -> LoadMembers(s, j + 1, <<>>)
              [] s[j] = "n"  ->
                     IF j + 3 <= Len(s) /\ SubSeq(s, j, j + 3) = <<"n", "u", "l", "l">>
                     THEN Parsed(Null, j + 4)
                     ELSE Parsed(Bad, j)
              [] OTHER       -> Parsed(Bad, j)

\* The rest of an array of which items have been read.
LoadItems(s, i, items) ==
    LET j == SkipSpace(s, i)
    IN IF j > Len(s) THEN Parsed(Bad, j)
       ELSE IF s[j] = "]" THEN Parsed(Many(items), j + 1)
       ELSE IF s[j] = "," /\ items # <<>> THEN LoadItems(s, j + 1, items)
       ELSE LET item == LoadValue(s, j)
            IN IF item.value = Bad THEN item
               ELSE LoadItems(s, item.next, Append(items, item.value))

\* The rest of an object of which pairs have been read.
LoadMembers(s, i, pairs) ==
    LET j == SkipSpace(s, i)
    IN IF j > Len(s) THEN Parsed(Bad, j)
       ELSE IF s[j] = "}" THEN Parsed(Mapping(pairs), j + 1)
       ELSE IF s[j] = "," /\ pairs # <<>> THEN LoadMembers(s, j + 1, pairs)
       ELSE IF s[j] # "\"" THEN Parsed(Bad, j)
       ELSE LET key == LoadString(s, j + 1, <<>>)
                k == SkipSpace(s, key.next)
            IN IF key.value = Bad \/ k > Len(s) THEN Parsed(Bad, k)
               ELSE IF s[k] # ":" THEN Parsed(Bad, k)
               ELSE LET member == LoadValue(s, k + 1)
                    IN IF member.value = Bad THEN member
                       ELSE LoadMembers(s, member.next,
                                        Append(pairs, <<key.value.text, member.value>>))

\* json.load of a file.
JsonLoad(file) ==
    LET parsed == LoadValue(file, 1)
    IN IF parsed.value # Bad /\ SkipSpace(file, parsed.next) > Len(file)
       THEN parsed.value
       ELSE Bad

\* C21: a record exported to JSON and read back is the same mapping from
\* its keys to its values.
C21_JsonRoundTrip ==
    \A t \in Threads :
        (pc[t] = "returned" /\ loc[t].data.is_dict)
            => LET record == loc[t].data.items[1]
                   back == JsonLoad(loc[t].file)
               IN /\ back.kind = "dict"
                  /\ Len(back.items) = Len(record)
                  /\ Range(back.items) = Range(record)

\* C21's case: a record with a list that holds None and a str with a
\* backslash and a quote has been exported.
C21_Witness ==
    \E t \in Threads :
        /\ pc[t] = "returned"
        /\ loc[t].data.is_dict
        /\ Len(loc[t].data.items[1]) = 2
        /\ loc[t].data.items[1][1][2] = Many(<<Null, Scalar(<<"\\", "n", "\"">>)>>)
        /\ loc[t].data.items[1][2][2] = Null
        /\ JsonLoad(loc[t].file).kind = "dict"

----------------------------------------------------------------------------
\* C22: constructing a Scraper with an engine name that is not registered
\* raises, and so does export for a format that means no registered exporter,
\* with nothing written; when a registered exporter fails, export returns
\* False and does not raise.
C22_UnknownNamesRaiseAtCallTime ==
    \A t \in Threads :
        /\ (loc[t].fn = "Scraper" /\ config.engine \notin RegisteredEngines)
               => (pc[t] = "returned" /\ loc[t].raised)
        /\ (loc[t].fn = "export" /\ loc[t].arg_s \notin RegisteredExporters)
               => (loc[t].raised /\ loc[t].exported = "none" /\ loc[t].file = <<>>)
        /\ (loc[t].fn = "export" /\ loc[t].arg_s \in RegisteredExporters)
               => (~loc[t].raised /\ loc[t].exported \in {"True", "False"})
        /\ (loc[t].fn = "export" /\ loc[t].exported = "False") => loc[t].file = <<>>

\* C22's case: an export to a format without an exporter has raised and
\* written nothing.
C22_Witness ==
    \E t \in Threads :
        /\ pc[t] = "sc_ready"
        /\ loc[t].fn = "export"
        /\ loc[t].arg_s = "yaml"
        /\ loc[t].raised
        /\ loc[t].file = <<>>

----------------------------------------------------------------------------
\* C23: from the construction of the Scraper on, the config is as the caller
\* constructed it, the engine option included.
C23_ConfigIsNeverChanged ==
    \A t \in Threads : pc[t] # "off" => config = loc[t].given

----------------------------------------------------------------------------
\* The file is missing or has no line.
Empty(file) == ~file.exists \/ file.lines = <<>>

\* C24: with a missing or empty proxy file get_proxy returns None under every
\* policy without raising and the request is sent without a proxy; with a
\* missing or empty user agent file the rotated user agent is one of the
\* built-in defaults.
C24_MissingFilesFallBack ==
    \A t \in Threads :
        /\ (Empty(proxy_file) /\ pc[t] \in {"fp_request", "en_extract", "sm_collect"})
               => /\ ~loc[t].raised
                  /\ loc[t].proxy = NoProxy
                  /\ loc[t].proxies = NoList
        /\ (Empty(proxy_file) /\ pc[t] \in {"en_extract", "sm_collect"})
               => /\ events # <<>>
                  /\ Last(events).e \in {"request", "wait"}
                  /\ \A i \in DOMAIN events :
                         events[i].e = "request" => events[i].a = NoProxy
        /\ (Empty(user_agent_file) /\ config.user_agent_rotation
                /\ pc[t] \in {"gp_load", "fp_request", "en_extract", "sm_collect"})
               => /\ loc[t].ua \in Range(DefaultUserAgents)
                  /\ user_agents_cache = <<>>

\* C24's case: both files are missing or empty, the policy is round-robin, a
\* default user agent was chosen and the page was fetched without a proxy.
C24_Witness ==
    \E t \in Threads :
        /\ pc[t] = "en_extract"
        /\ ~proxy_file.exists
        /\ user_agent_file = ProxyFileOf(0)
        /\ config.proxy_rotation_policy = "round-robin"
        /\ config.user_agent_rotation
        /\ loc[t].ua = DefaultUserAgents[2]
        /\ loc[t].proxy = NoProxy
        /\ \E i \in DOMAIN events : events[i].e = "request"

----------------------------------------------------------------------------
\* The labels at which a thread is inside a network call: parser.read() for
\* robots.txt, a proxy probe of refresh_proxies, the page request.
NetworkLabels == {"cf_read", "rf_filter", "fp_request"}

\* C25: no thread holds the robots cache lock or the proxy pool lock while it
\* is inside a network call, and so a can_fetch for a cached origin never
\* waits for the lock behind another thread's retrieval.
C25_NoLockAcrossNetworkCall ==
    \A t \in Threads :
        /\ pc[t] \in NetworkLabels
               => (robots_parsers_lock # t /\ proxies_lock # t)
        /\ (pc[t] = "cf_enter" /\ Cached(robots_parsers, loc[t].url.origin))
               => ~(\E u \in Threads \ {t} :
                        pc[u] = "cf_read" /\ robots_parsers_lock = u)

----------------------------------------------------------------------------
\* The cached origins whose last use is more than the TTL before `time`.
OlderThanTtl(last_used, time) ==
    {o \in DOMAIN last_used : time - last_used[o] > robots_parsers_cache_ttl}

\* What the eviction pass of a can_fetch step did to the cache: nothing at or
\* below the cap; above it, every entry older than the TTL goes, and if that
\* leaves more than the cap the entries used longest ago go until the cap is
\* met.  Entries that stay are not changed by the pass.
EvictionPass(t) ==
    LET before == DOMAIN robots_parsers
        removed == before \ DOMAIN robots_parsers'
        old == OlderThanTtl(robots_parsers_last_used, now)
        cap == robots_parsers_max_cache_size
    IN /\ DOMAIN robots_parsers' \subseteq before
       /\ \A o \in DOMAIN robots_parsers' : robots_parsers'[o] = robots_parsers[o]
       /\ IF Cardinality(before) <= cap
          THEN removed = {}
          ELSE IF Cardinality(before \ old) <= cap
               THEN removed = old
               ELSE /\ old \subseteq removed
                    /\ Cardinality(DOMAIN robots_parsers') = cap
                    /\ \A r \in removed \ old : \A o \in DOMAIN robots_parsers' :
                           robots_parsers_last_used[r] <= robots_parsers_last_used[o]

\* C26: the eviction pass at the start of every cache lookup removes nothing
\* while the cache is at or below the cap of 100, even entries older than the
\* TTL of 3600 s; above the cap it removes the entries older than the TTL and
\* then, if still above, the least recently used ones down to the cap.
C26_EvictionOnlyAboveCap ==
    [][\A t \in Threads :
          (pc[t] = "cf_enter" /\ pc'[t] # "cf_enter") => EvictionPass(t)]_vars

\* C26's case: a lookup found the cache above the cap with no entry older
\* than the TTL and removed origin 1, the least recently used, while another
\* lookup had left entries older than the TTL in a cache at the cap.
C26_Witness ==
    \E t \in Threads :
        /\ pc[t] = "cf_read"
        /\ now = robots_parsers_cache_ttl + 1
        /\ Cardinality(DOMAIN robots_parsers) = robots_parsers_max_cache_size
        /\ 1 \notin DOMAIN robots_parsers
        /\ 2 \in DOMAIN robots_parsers
        /\ robots_parsers_last_used[2] = 1
        /\ OlderThanTtl(robots_parsers_last_used, now) = {}

\* C28: the cache never holds more than cap + 1 origins, holds at most the
\* cap when an eviction pass has just run, and the parser map and the
\* last-used map always have the same origins.
C28_CacheSizeIsBounded ==
    /\ DOMAIN robots_parsers = DOMAIN robots_parsers_last_used
    /\ Cardinality(DOMAIN robots_parsers) <= robots_parsers_max_cache_size + 1
    /\ \A t \in Threads :
           (pc[t] = "cf_read" \/ (pc[t] = "returned" /\ loc[t].read = "none"))
               => Cardinality(DOMAIN robots_parsers) <= robots_parsers_max_cache_size

\* C28's case: a retrieval has been added to a cache at the cap.
C28_Witness ==
    /\ Cardinality(DOMAIN robots_parsers) = robots_parsers_max_cache_size + 1
    /\ \E t \in Threads : pc[t] = "returned" /\ loc[t].read = "served"

----------------------------------------------------------------------------
\* C27: whenever the cached pool is non-empty the round-robin cursor is an
\* index of it, and no round-robin get_proxy ends in an exception, whatever
\* get_proxy, add_proxy, remove_proxy and refresh_proxies calls came before.
C27_CursorStaysValid ==
    /\ (proxies_cache # NoList /\ ListOf(proxies_cache) # <<>>)
           => current_proxy_index < Len(ListOf(proxies_cache))
    /\ \A t \in Threads :
           (pc[t] = "returned" /\ loc[t].policy = "round-robin") => ~loc[t].raised

----------------------------------------------------------------------------
\* C30: refresh_proxies never takes out of the cached pool an entry it did
\* not probe: an entry appended by add_proxy behind the entries refresh has
\* probed is still cached when refresh stores its result.
C30_AddDuringRefreshIsKept ==
    [][\A t \in Threads :
          (pc[t] = "rf_replace" /\ pc'[t] # "rf_replace")
              => \A k \in DOMAIN Pool :
                     (/\ k > Len(loc[t].probes)
                      /\ \A j \in 1 .. Len(loc[t].probes) : Pool[j] # Pool[k])
                         => Pool[k] \in Range(Pool')]_vars

----------------------------------------------------------------------------
\* The ends of parser.read() at which robots.txt was not retrieved: the host
\* unreachable, the body undecodable, the server answering with an error.
\* (401, 403 and 404 are answers about robots.txt and are not counted.)
FailedEnds == ReadRaises \cup {"http_500"}

\* C29: a can_fetch whose robots.txt retrieval failed leaves the cache as it
\* was, with no entry for the origin, so that the next can_fetch for the
\* origin retrieves again.
C29_FailedRetrievalIsNotCached ==
    [][\A t \in Threads :
          (pc[t] = "cf_read" /\ pc'[t] # "cf_read" /\ loc'[t].read \in FailedEnds)
              => /\ UNCHANGED <<robots_parsers, robots_parsers_last_used>>
                 /\ ~Cached(robots_parsers', loc[t].url.origin)]_vars


=============================================================================
